---- MODULE Spec2Model ----
(***************************************************************************)
(* Publisher fan-out runtime of binlog-stream: the per-sink bounded ring   *)
(* queue, its worker thread, and the main (decoder) thread that starts the *)
(* sinks, dispatches events to them, and stops and destroys them.          *)
(*                                                                         *)
(* Then the stream decoders of both dialects: transaction context,        *)
(* checkpoint file, restart.                                               *)
(*                                                                         *)
(* Sources: src/src/core/publisher_loader.c,                               *)
(*          src/src/core/binlog_stream_modular.c,                          *)
(*          src/src/core/pg_stream_modular.c.                              *)
(***************************************************************************)
EXTENDS Integers, Sequences, FiniteSets, TLC

(* ---- bounds ---------------------------------------------------------- *)
MaxCap == 2
MaxEvents == 3
MaxCopyFailures == 1
MaxPublishErrors == 1
\* restarts of the streamer from its checkpoint file
MaxRestarts == 1
\* whitespace characters before and after a configuration value
MaxPad == 1
\* statements (transactions) of the multi-table binlog
MaxStmts == 2
\* RELATION and INSERT messages inside the transaction of a session
MaxRelMsgs == 3
MaxXidEvents == 4
UpdPastLen == 2
MaxSize == 24
MaxRows == 2

(* ---- universe -------------------------------------------------------- *)
\* the sinks named by the configuration, in configuration order
Sinks == {1, 2}
ConfigOrder == <<1, 2>>
\* schema (database) names carried by events
Schemas == {"a", "c"}
\* value of publish_event's parameter db while no call is running
NoDb == ""
\* the publish_databases list of each sink (empty = no filter)
FilterConfig == [s \in Sinks |-> IF s = 1 THEN << >> ELSE <<"b", "a">>]
\* a record copy is a heap object; 0 is the NULL pointer
NULL == 0
ObjIds == 1..(MaxEvents * Cardinality(Sinks))
\* calloc in cdc_event_copy returns a fresh address: the k-th copy made for
\* sink s is object ObjOf(k, s)
ObjOf(k, s) == (k - 1) * Cardinality(Sinks) + s
SinkOf(o) == ((o - 1) % Cardinality(Sinks)) + 1

VARIABLES
    \* manager
    instances,          \* manager->instances list, head first
    \* publisher_instance_t fields, per sink
    databases,          \* config.databases (schema filter)
    active,
    started,
    thread_started,
    queue,              \* ring slots 0..q_capacity-1, NULL when empty;
                        \* << >> once queue_destroy has freed the ring
    q_head, q_tail, q_count, q_capacity,
    q_stop,
    q_mutex,            \* "free" or "worker": holder between two steps
    events_published, events_dropped, errors,
    \* worker thread of each sink
    wpc,                \* "none", "run", "wait", "in_publish", "exited"
    wevent,             \* its local variable event
    \* main (decoder) thread
    pc,                 \* position of the main thread
    idx,                \* position in the instance list of the running loop
    cur_db,             \* schema of the event being dispatched
    event_copy,         \* local event_copy of publisher_instance_enqueue
    enq_ret,            \* last return value of publisher_instance_enqueue
    stop_from,          \* caller of the running publisher_instance_stop
    keep_running,
    nevents,            \* events emitted by the decoder so far
    \* heap of record copies
    heap,               \* "unalloc", "live", "freed" or "double_freed"
    \* history
    attempts,           \* calls of publisher_instance_enqueue per sink
    enqLog,             \* copies enqueued with success, in order
    pubLog,             \* copies passed to the publish callback, in order
    counted,            \* per copy: increments of events_published/errors
    copy_failures,      \* failed cdc_event_copy calls so far
    publish_errors,     \* publish calls that returned non-zero so far
    calls,              \* lifecycle callbacks invoked on the sink, in order
    q_at_stop,          \* q_count when the stop flag was set, -1 before
    offered,            \* sinks the running publish_event has called
                        \* publisher_instance_enqueue on so far, in order
    \* stream decoder (one process, restarted from the checkpoint file)
    dialect,            \* "mysql" or "pg": which streamer binary runs
    save_count,         \* g_config.save_position_event_count
    dpc,                \* "boot", "streaming", "stopped" ("off": no decoder)
    run,                \* number of restarts so far
    feed,               \* what the server still sends on this connection
    current_binlog,     \* 0 is the empty name ""
    current_position,
    current_lsn,
    events_since_save,
    current_txn_id,     \* NoTxn is the empty string
    in_transaction,
    g_map_table_id,     \* g_map.table_id
    g_map_db,           \* g_map.db
    relations,          \* g_relations: the cached relations, newest first (pg)
    checkpoint,         \* contents of the checkpoint file
    slot_lsn,           \* confirmed_flush_lsn of the replication slot
    next_uuid,          \* ids handed out by generate_txn_id so far
    \* history of the decoder
    emitted,            \* records passed to publish_event, in order
    writes,             \* save_position calls that wrote the file, in order
    restored,           \* checkpoint file as the running process found it
    start_req,          \* start position requested from the server
    slot_seen,          \* confirmed_flush_lsn read at start, -1 unreadable
    parsed_upto,        \* server position of the end of the last message
                        \* handled by the running process
    \* column projection of the MySQL decoder
    g_metadata_conn,    \* TRUE when the metadata connection is open
    capture_all_columns,\* per configured table
    cfg_index,          \* tbl_cfg->columns[j].index, per configured table
    g_map_tbl,          \* g_map.tbl
    g_map_ncols,        \* g_map.ncols
    column_names,       \* g_map.column_names, << >> is NULL
    column_names_fetched,
    ins_rec,            \* per table, the last INSERT record published
    del_rec,            \* per table, the DELETE record published after it
    g_enum_cache,       \* "NULL", "empty" (allocated, nothing loaded) or
                        \* the table whose ENUM literals are loaded
    \* table maps and rows events of multi-table statements
    srv_maps,           \* tables whose TABLE_MAP the server has sent in the
                        \* current statement
    srv_phase,          \* "maps" until the first rows event, then "rows"
    rotated,            \* a ROTATE was handled and no TABLE_MAP since
    last_row,           \* the last rows record published, with its event
    \* relation messages of a PostgreSQL session
    rel_feed,           \* the messages the server sends in the session
    \* exit path of main
    exit_log,           \* steps main has taken after the stream loop, in order
    \* one PostgreSQL UPDATE message
    upd_old,            \* its KEY/OLD tuple as the server encoded it, << >>
                        \* when the message carries none
    upd_new,            \* its NEW tuple
    upd_past,           \* the bytes behind the message in the receive buffer
    upd_rec,            \* the record parse_update_message published
    \* one MySQL event buffer
    ev_size,            \* parameter size of parse_event
    ev_len,             \* the 32-bit length field of the event header, as
                        \* << high 16 bits, low 16 bits >>
    has_checksum,       \* the server appends a CRC32 to every event
    payload_len,        \* << payload_len >> handed to the handlers, << >>
                        \* before the call and when parse_event returns -1
    \* one MySQL WRITE_ROWS event of the mapped table
    row_types,          \* g_map.types: per column "int" or "unknown"
    row_in,             \* the row images the server wrote: per row the set
                        \* of its NULL columns
    row_cut,            \* bytes of the last row image missing from the event
    row_rec,            \* << the record parse_write_rows published >>
    \* plugin loading
    load_idx,           \* next entry of the publishers configuration
    instance_count,     \* manager->instance_count
    plugin_api,         \* per sink: what get_api_version of its plugin
                        \* returns, NoApi without the callback
    load_ret,           \* return values of publisher_manager_load_plugin
    load_log,           \* what each call logged last
    \* configuration accessors the host hands to the plugins
    config_keys,        \* config->config_keys
    config_values,      \* config->config_values
    gb_default,         \* default_val of the call of plugin_get_config_bool
    gb_lead,            \* the value looked up is gb_lead \o gb_core \o
    gb_core,            \* gb_trail: whitespace, a word, whitespace
    gb_trail,
    gb_ret,             \* what the call returned, NoRet before it
    \* keepalives of the PostgreSQL walsender
    ka_plan,            \* the keepalives the server sends in each session
    ka_log              \* per reply-requested keepalive handled in this
                        \* run: what the client sent while handling it

cfgvars == << instances, databases, active, q_capacity >>
qvars == << queue, q_head, q_tail, q_count, q_stop, q_mutex >>
statvars == << events_published, events_dropped, errors >>
wvars == << wpc, wevent >>
mainvars == << pc, idx, cur_db, event_copy, enq_ret, stop_from, nevents >>
histvars == << attempts, enqLog, pubLog, counted, copy_failures,
              publish_errors, calls, q_at_stop, offered >>
pubvars == << cfgvars, started, thread_started, qvars, statvars, wvars,
              mainvars, keep_running, heap, histvars >>
decstate == << current_binlog, current_position, current_lsn,
               events_since_save, current_txn_id, in_transaction,
               g_map_table_id, g_map_db, relations >>
streamvars == << dialect, save_count, dpc, run, feed, decstate, checkpoint,
                 slot_lsn, next_uuid, emitted, writes, restored, start_req,
                 slot_seen, parsed_upto >>
\* the decoder state parse_table_map and the rows parsers leave alone
streamrest == << dialect, save_count, dpc, run, feed, current_binlog,
                 current_position, current_lsn, events_since_save,
                 relations, checkpoint, slot_lsn, emitted, writes, restored,
                 start_req, slot_seen, parsed_upto >>
projvars == << g_metadata_conn, capture_all_columns, cfg_index, g_map_tbl,
               g_map_ncols, column_names, column_names_fetched, ins_rec,
               del_rec, g_enum_cache >>
mapvars == << srv_maps, srv_phase, rotated, last_row >>
loadvars == << load_idx, instance_count, plugin_api, load_ret, load_log >>
\* the publisher state publisher_manager_load_plugin leaves alone
loadrest == << databases, active, q_capacity, started, thread_started, qvars,
               statvars, wvars, mainvars, keep_running, heap, attempts,
               enqLog, pubLog, counted, copy_failures, publish_errors,
               q_at_stop, offered >>
helpvars == << config_keys, config_values, gb_default, gb_lead, gb_core,
               gb_trail, gb_ret >>
\* the state outside the publisher runtime, the decoders and the loader
kavars == << ka_plan, ka_log >>
relvars == << rel_feed >>
exitvars == << exit_log >>
updvars == << upd_old, upd_new, upd_past, upd_rec >>
lenvars == << ev_size, ev_len, has_checksum, payload_len >>
rowvars == << row_types, row_in, row_cut, row_rec >>
tailvars == << exitvars, updvars, lenvars, rowvars >>
auxvars == << helpvars, kavars, mapvars, relvars, tailvars >>
nonpubvars == << streamvars, projvars, loadvars, auxvars >>
\* the state outside the publisher runtime that main's exit path leaves alone
nonexitvars == << streamvars, projvars, loadvars, helpvars, kavars, mapvars,
                 relvars, updvars, lenvars, rowvars >>
vars == << pubvars, nonpubvars >>

(* ---- pure helpers ------------------------------------------------------ *)

Range(f) == {f[i] : i \in DOMAIN f}

\* publisher_manager_load_plugin adds each loaded instance at the list head
\* (faulty variant: the instance is added at the list tail)
RECURSIVE LoadAll_append(_, _)
LoadAll_append(order, list) ==
    IF order = << >> THEN list
    ELSE LoadAll_append(Tail(order), list \o << Head(order) >>)

RECURSIVE LoadAll(_, _)
LoadAll(order, list) ==
    IF order = << >> THEN list
    ELSE LoadAll(Tail(order), << Head(order) >> \o list)

\* the address the next cdc_event_copy for sink s returns
NewObj(h, s) ==
    ObjOf(Cardinality({o \in ObjIds : SinkOf(o) = s /\ h[o] # "unalloc"}) + 1, s)

\* cdc_event_free: free(NULL) does nothing, a second free is a double free
\* (faulty variant: nothing is freed)
cdc_event_free_leak(h, o) == h
cdc_event_free(h, o) ==
    IF o = NULL THEN h
    ELSE [h EXCEPT ![o] = IF @ = "live" THEN "freed" ELSE "double_freed"]

\* publisher_should_publish: the loop over config.databases
RECURSIVE FilterHas(_, _, _)
FilterHas(dbs, i, db) ==
    IF i > Len(dbs) THEN FALSE
    ELSE IF dbs[i] = db THEN TRUE
    ELSE FilterHas(dbs, i + 1, db)

\* (faulty variant: the filter list is ignored)
publisher_should_publish_nofilter(s, db) == active[s]
publisher_should_publish(s, db) ==
    IF ~active[s] THEN FALSE
    ELSE IF Len(databases[s]) = 0 THEN TRUE
    ELSE FilterHas(databases[s], 1, db)

\* the queue-full test of publisher_instance_enqueue
\* (faulty variant: > instead of >=)
QueueFull_offbyone(s) == q_count[s] > q_capacity[s]
QueueFull(s) == q_count[s] >= q_capacity[s]

\* the slot the worker takes a record from
\* (faulty variant: the newest record instead of the oldest)
DequeueIndex_lifo(s) == (q_tail[s] + q_capacity[s] - 1) % q_capacity[s]
DequeueIndex(s) == q_head[s]

\* the worker's exit test after its wait loop
\* (faulty variant: exit on q_stop without draining)
WorkerExitCond_nodrain(s) == q_stop[s]
WorkerExitCond(s) == q_stop[s] /\ q_count[s] = 0

\* owner of q_mutex when the worker leaves its critical section with a record
\* (faulty variant: unlock only after publish)
MutexAfterPop_held(s) == "worker"
MutexAfterPop(s) == "free"

\* the counters after publish returned ret: << events_published, errors >>
\* (faulty variant: missing else, both counters move)
PublishCount_both(s, ret) == << events_published[s] + 1, errors[s] + 1 >>
PublishCount(s, ret) ==
    IF ret = 0 THEN << events_published[s] + 1, errors[s] >>
    ELSE << events_published[s], errors[s] + 1 >>

\* pthread_join in publisher_instance_stop returns once the worker has exited
\* (faulty variant: no join)
JoinReturns_nojoin(s) == TRUE
JoinReturns(s) == thread_started[s] => wpc[s] = "exited"

\* pthread_cond_signal / pthread_cond_broadcast on q_cond: the (only) waiter,
\* the sink's worker, leaves pthread_cond_wait; it re-takes the mutex and
\* tests its wait condition again.  Spurious wake-ups are left out: they
\* only make the worker test the same condition once more.
Wake_lost(w, s) == w
Wake(w, s) == IF w[s] = "wait" THEN [w EXCEPT ![s] = "run"] ELSE w

\* slots queue_destroy frees: q_count slots starting at q_head
DestroySlots(s) ==
    [i \in 1..q_count[s] |-> (q_head[s] + (i - 1)) % q_capacity[s]]

RECURSIVE FreeSlots(_, _, _)
FreeSlots(h, q, slots) ==
    IF slots = << >> THEN h
    ELSE FreeSlots(cdc_event_free(h, q[Head(slots)]), q, Tail(slots))

(* ---- stream decoders: universe ---------------------------------------- *)
\* the checkpoint file does not exist
NoCkpt == << >>
\* current_txn_id[0] == '\0'
NoTxn == 0
\* replication.save_position_event_count of the configurations explored
SaveCounts == {0, 2}
\* the schema named by the capture configuration (capture_dml and
\* capture_ddl set), with its one captured table
CaptureDb == "a"
CaptureTid == 7
DdlVerbs == {"CREATE", "ALTER", "DROP", "TRUNCATE", "RENAME"}
RowsTypes == {"WRITE_ROWS", "DELETE_ROWS"}

\* positions are pairs << binlog file, offset >>; an LSN is << 0, lsn >>
PosLeq(p, q) == p[1] < q[1] \/ (p[1] = q[1] /\ p[2] <= q[2])
PosLess(p, q) == PosLeq(p, q) /\ p # q
Max2(a, b) == IF a >= b THEN a ELSE b

\* a second configured schema, with capture_dml set and capture_ddl clear
DmlOnlyDb == "m"
\* a schema the capture configuration does not name
OtherDb == "x"
\* the configured schemas with capture_dml, and those with capture_ddl
DmlDbs == {CaptureDb, DmlOnlyDb}
DdlDbs == {CaptureDb}

should_capture_table(db) == db \in DmlDbs \cup DdlDbs
should_capture_dml(db) == db \in DmlDbs
should_capture_ddl_dml(db) == db \in DmlDbs
should_capture_ddl(db) == db \in DdlDbs

\* the first event of a binlog file starts behind the 4-byte magic
FirstPos == 4

\* static initialisers of the decoder globals
DecoderStatics ==
    /\ current_binlog = 0
    /\ current_position = FirstPos
    /\ current_lsn = 0
    /\ events_since_save = 0
    /\ current_txn_id = NoTxn
    /\ in_transaction = 0
    /\ g_map_table_id = 0
    /\ g_map_db = ""
    /\ relations = << >>

\* ---- the MySQL server: two binlog files ----
\* stxn numbers the server's transactions, ev its row changes
BinEvent(type, query, stxn, ev) ==
    [type |-> type, query |-> query, stxn |-> stxn, ev |-> ev]
BinlogFiles ==
    << << BinEvent("FORMAT_DESCRIPTION", "", 0, 0),
          BinEvent("QUERY", "BEGIN", 1, 0),
          BinEvent("TABLE_MAP", "", 1, 0),
          BinEvent("WRITE_ROWS", "", 1, 1),
          BinEvent("XID", "", 1, 0),
          BinEvent("QUERY", "CREATE", 2, 0),
          BinEvent("ROTATE", "", 0, 0) >>,
       << BinEvent("FORMAT_DESCRIPTION", "", 0, 0),
          BinEvent("QUERY", "BEGIN", 3, 0),
          BinEvent("TABLE_MAP", "", 3, 0),
          BinEvent("WRITE_ROWS", "", 3, 2),
          BinEvent("TABLE_MAP", "", 3, 0),
          BinEvent("DELETE_ROWS", "", 3, 3),
          BinEvent("XID", "", 3, 0) >> >>
\* every event of the model is one byte long
EventStart(k) == FirstPos + (k - 1)
EventEnd(k) == FirstPos + k

\* event k of file f as it arrives: header field next_pos, and for ROTATE
\* the payload (next file, position 4); at is the server's position behind
\* the event
Wire(f, k) ==
    LET e == BinlogFiles[f][k] IN
    [type |-> e.type, query |-> e.query, stxn |-> e.stxn, ev |-> e.ev,
     db |-> CaptureDb, tid |-> CaptureTid,
     next_pos |-> EventEnd(k), rot_file |-> f + 1, rot_pos |-> FirstPos,
     at |-> IF e.type = "ROTATE" THEN << f + 1, FirstPos >>
            ELSE << f, EventEnd(k) >>]
\* the artificial events a dump starts with have next_pos 0
FakeEvent(type, f, p) ==
    [type |-> type, query |-> "", stxn |-> 0, ev |-> 0,
     db |-> CaptureDb, tid |-> CaptureTid,
     next_pos |-> 0, rot_file |-> f, rot_pos |-> p, at |-> << f, p >>]
FileFeed(f, p) ==
    LET n == Len(BinlogFiles[f])
        first == IF p <= FirstPos THEN 1 ELSE p - FirstPos + 1
    IN  [i \in 1..(n - first + 1) |-> Wire(f, first + i - 1)]
RECURSIVE LaterFiles(_)
LaterFiles(f) ==
    IF f > Len(BinlogFiles) THEN << >>
    ELSE FileFeed(f, FirstPos) \o LaterFiles(f + 1)
\* what the server sends to a dump that starts at file f, offset p
ServerFeed(f, p) ==
    << FakeEvent("ROTATE", f, p) >>
    \o (IF p > FirstPos THEN << FakeEvent("FORMAT_DESCRIPTION", f, p) >>
        ELSE << >>)
    \o FileFeed(f, p) \o LaterFiles(f + 1)
\* the position the configuration names (binlog_file, binlog_position)
ConfigStart == << 1, FirstPos >>

\* ---- the PostgreSQL server: three transactions in commit order; the
\* second one starts before the first one commits ----
WalTxns ==
    << [stxn |-> 1, first_lsn |-> 1, changes |-> << 1 >>,
        commit_lsn |-> 4, end_lsn |-> 5],
       [stxn |-> 2, first_lsn |-> 2, changes |-> << 2, 6 >>,
        commit_lsn |-> 7, end_lsn |-> 8],
       [stxn |-> 3, first_lsn |-> 9, changes |-> << 9 >>,
        commit_lsn |-> 10, end_lsn |-> 11] >>
CaptureRelid == 16
\* the captured table with that relation id, and the name it has after
\* ALTER TABLE ... RENAME, which the configuration does not list
PgTable == "orders"
PgRenamed == "orders_old"
\* find_relation found nothing
NoRel == << >>
\* the first entry of the relation list with the id
find_relation(list, relid) ==
    LET hits == {i \in 1..Len(list) : list[i].relid = relid}
    IN IF hits = {} THEN NoRel
       ELSE list[CHOOSE i \in hits : \A j \in hits : i <= j]
\* an XLogData message carries the LSN of the WAL record it was decoded
\* from; tend is the end LSN of the transaction the message belongs to
PgMsg(type, lsn, x) ==
    [type |-> type, lsn |-> lsn, end_lsn |-> x.end_lsn, stxn |-> x.stxn,
     ev |-> IF type = "INSERT" THEN lsn ELSE 0, relid |-> CaptureRelid,
     name |-> PgTable, tend |-> x.end_lsn]
TxnMsgs(x, with_relation) ==
    << PgMsg("BEGIN", x.first_lsn, x) >>
    \o (IF with_relation THEN << PgMsg("RELATION", x.changes[1], x) >>
        ELSE << >>)
    \o [i \in 1..Len(x.changes) |-> PgMsg("INSERT", x.changes[i], x)]
    \o << PgMsg("COMMIT", x.end_lsn, x) >>
RECURSIVE PgFeedFrom(_, _, _)
PgFeedFrom(i, from, first) ==
    IF i > Len(WalTxns) THEN << >>
    ELSE IF WalTxns[i].end_lsn <= from THEN PgFeedFrom(i + 1, from, first)
    ELSE TxnMsgs(WalTxns[i], first) \o PgFeedFrom(i + 1, from, FALSE)
\* what the walsender sends when decoding starts at LSN from: every
\* transaction that ends behind it, whole, the relation once per session
PgFeed(from) == PgFeedFrom(1, from, TRUE)
\* a session of one transaction on the relation CaptureRelid: RELATION
\* messages naming the captured table ("REL_IN") or the renamed one
\* ("REL_OUT") and INSERT messages, between BEGIN and COMMIT
RelKinds == {"REL_IN", "REL_OUT", "INSERT"}
RelTxn(n) == [stxn |-> 1, first_lsn |-> 1, end_lsn |-> n + 3]
RelMsg(kind, lsn, x) ==
    IF kind = "INSERT" THEN PgMsg("INSERT", lsn, x)
    ELSE [PgMsg("RELATION", lsn, x) EXCEPT
            !.name = IF kind = "REL_IN" THEN PgTable ELSE PgRenamed]
RelFeedOf(body) ==
    << PgMsg("BEGIN", 1, RelTxn(Len(body))) >>
    \o [i \in 1..Len(body) |-> RelMsg(body[i], i + 1, RelTxn(Len(body)))]
    \o << PgMsg("COMMIT", Len(body) + 3, RelTxn(Len(body))) >>
RelFeeds ==
    UNION {{RelFeedOf(b) : b \in [1..n -> RelKinds]} : n \in 1..MaxRelMsgs}
\* a primary keepalive message; the client reads its reply-requested byte
KaMsg(k, reply) == [type |-> "KEEPALIVE", id |-> k, reply |-> reply]
\* the session's messages with keepalive k of the plan put in after the
\* first plan[k].at messages (at the end of a shorter session)
RECURSIVE WithKeepalives(_, _, _)
WithKeepalives(msgs, plan, k) ==
    IF k > Len(plan) THEN msgs
    ELSE LET at == IF plan[k].at <= Len(msgs) THEN plan[k].at ELSE Len(msgs)
             rest == WithKeepalives(SubSeq(msgs, at + 1, Len(msgs)),
                                    [i \in 1..Len(plan) |->
                                       [plan[i] EXCEPT !.at = @ - at]],
                                    k + 1)
         IN SubSeq(msgs, 1, at) \o << KaMsg(k, plan[k].reply) >> \o rest
\* keepalive plans: one or two keepalives, after KaSlots messages
KaSlots == {0, 3}
KaPlans ==
    {<< [at |-> a, reply |-> r] >> : a \in KaSlots, r \in BOOLEAN}
    \cup {<< [at |-> a, reply |-> TRUE], [at |-> a, reply |-> r] >> :
            a \in KaSlots, r \in BOOLEAN}

\* ---- configuration accessors ----
\* strings are sequences of characters; "sp", "tab", "lf", "cr" stand for
\* ' ', '\t', '\n', '\r'
SkippedChars == {"sp", "tab", "lf", "cr"}
\* the words a configuration value can hold between its whitespace
BoolWords ==
    { << "1" >>, << "0" >>, << "2" >>, << "1", "0" >>, << >>,
      << "t", "r", "u", "e" >>, << "T", "R", "U", "E" >>,
      << "T", "r", "u", "e" >>, << "y", "e", "s" >>, << "Y", "E", "S" >>,
      << "o", "n" >>, << "O", "n" >>,
      << "f", "a", "l", "s", "e" >>, << "F", "A", "L", "S", "E" >>,
      << "n", "o" >>, << "N", "O" >>, << "o", "f", "f" >>,
      << "O", "F", "F" >>, << "t", "r", "u" >>, << "o", "n", "e" >> }
\* runs of whitespace of at most n characters
RECURSIVE Pads(_)
Pads(n) ==
    IF n = 0 THEN {<< >>}
    ELSE Pads(n - 1) \cup
         {<< c >> \o p : c \in SkippedChars, p \in {q \in Pads(n - 1) :
                                                      Len(q) = n - 1}}
\* the key the plugin asks for, and another key of the configuration
BoolKey == << "k" >>
OtherKey == << "m" >>
\* a configuration value: NULL, or a string
NullVal == [null |-> TRUE, s |-> << >>]
StrVal(s) == [null |-> FALSE, s |-> s]
\* the call has not returned
NoRet == -1

\* ---- column projection: the captured tables of the configuration ----
Tables == {"orders", "items"}
\* the columns of each table on the server, in physical order
TableCols ==
    [t \in Tables |-> IF t = "orders" THEN << "id", "total" >>
                      ELSE << "id", "sku" >>]
TableIdOf(t) == IF t = "orders" THEN CaptureTid ELSE CaptureTid + 1
\* "columns" and "primary_key" of each table entry of the configuration
CfgColumns ==
    [t \in Tables |-> IF t = "orders" THEN << "id", "total" >>
                      ELSE << "sku" >>]
PkConfig ==
    [t \in Tables |-> IF t = "orders" THEN << "id" >> ELSE << >>]
\* no record published yet
NoRec == << >>
\* a table of the captured schema that the configuration does not list
OtherTable == "audit"
AllTables == Tables \cup {OtherTable}
\* the second column of every table is an ENUM column
EnumCol == 2
\* the columns a TABLE_MAP or rows event of the table announces
EventCols(t) == IF t \in Tables THEN Len(TableCols[t]) ELSE EnumCol
EventTid(t) == IF t \in Tables THEN TableIdOf(t) ELSE CaptureTid + 2
\* the compile-time API version of the host
PUBLISHER_API_VERSION == 1
\* what get_api_version of a plugin may return; NoApi: the callback is NULL
ApiVersions == {0, PUBLISHER_API_VERSION, 2}
NoApi == -1
\* where publisher_manager_load_plugin can fail
LoadFailures == {"none", "dlopen", "callbacks", "init_callback"}
\* -1 or 0: the return value for what the call logged last
LoadRet(log) == IF log = "loaded" THEN 0 ELSE -1

(* ---- initial state: the manager has loaded every configured sink ----- *)
PublisherInit(depths, list) ==
    /\ instances = list
    /\ databases = FilterConfig
    /\ active \in [Sinks -> BOOLEAN]
    /\ \A s \in Range(list) : active[s]
    /\ started = [s \in Sinks |-> FALSE]
    /\ thread_started = [s \in Sinks |-> FALSE]
    /\ \E depth \in depths : q_capacity = [s \in Sinks |-> depth]
    /\ queue = [s \in Sinks |-> [i \in 0..(q_capacity[s] - 1) |-> NULL]]
    /\ q_head = [s \in Sinks |-> 0]
    /\ q_tail = [s \in Sinks |-> 0]
    /\ q_count = [s \in Sinks |-> 0]
    /\ q_stop = [s \in Sinks |-> FALSE]
    /\ q_mutex = [s \in Sinks |-> "free"]
    /\ events_published = [s \in Sinks |-> 0]
    /\ events_dropped = [s \in Sinks |-> 0]
    /\ errors = [s \in Sinks |-> 0]
    /\ wpc = [s \in Sinks |-> "none"]
    /\ wevent = [s \in Sinks |-> NULL]
    /\ pc = "start"
    /\ idx = 1
    /\ cur_db = NoDb
    /\ event_copy = NULL
    /\ enq_ret = 0
    /\ stop_from = "main"
    /\ keep_running = TRUE
    /\ nevents = 0
    /\ heap = [o \in ObjIds |-> "unalloc"]
    /\ attempts = [s \in Sinks |-> 0]
    /\ enqLog = [s \in Sinks |-> << >>]
    /\ pubLog = [s \in Sinks |-> << >>]
    /\ counted = [o \in ObjIds |-> 0]
    /\ copy_failures = 0
    /\ publish_errors = 0
    /\ calls = [s \in Sinks |-> IF s \in Range(list) THEN << "init" >>
                                ELSE << >>]
    /\ q_at_stop = [s \in Sinks |-> -1]
    /\ offered = << >>

\* no stream decoder runs
StreamOff ==
    /\ dialect = "none"
    /\ save_count = 0
    /\ dpc = "off"
    /\ run = 0
    /\ feed = << >>
    /\ DecoderStatics
    /\ checkpoint = NoCkpt
    /\ slot_lsn = 0
    /\ next_uuid = 0
    /\ emitted = << >>
    /\ writes = << >>
    /\ restored = NoCkpt
    /\ start_req = NoCkpt
    /\ slot_seen = -1
    /\ parsed_upto = NoCkpt

\* the decoder has seen no TABLE_MAP
ProjOff ==
    /\ g_metadata_conn = TRUE
    /\ capture_all_columns = [t \in Tables |-> FALSE]
    /\ cfg_index = [t \in Tables |-> [j \in 1..Len(CfgColumns[t]) |-> -1]]
    /\ g_map_tbl = ""
    /\ g_map_ncols = 0
    /\ column_names = << >>
    /\ column_names_fetched = FALSE
    /\ ins_rec = [t \in Tables |-> NoRec]
    /\ del_rec = [t \in Tables |-> NoRec]
    /\ g_enum_cache = "NULL"

\* load_config has loaded every entry of the publishers array
\* no plugin has called a configuration accessor
HelpOff ==
    /\ config_keys = << >>
    /\ config_values = << >>
    /\ gb_default = 0
    /\ gb_lead = << >>
    /\ gb_core = << >>
    /\ gb_trail = << >>
    /\ gb_ret = NoRet

\* the server sends no keepalive
KaOff ==
    /\ ka_plan = << >>
    /\ ka_log = << >>

\* no statement is being decoded
MapOff ==
    /\ srv_maps = {}
    /\ srv_phase = "maps"
    /\ rotated = FALSE
    /\ last_row = NoRec

\* no session with relation changes
RelOff == rel_feed = << >>

\* main has not left the stream loop
ExitOff == exit_log = << >>

\* no UPDATE message has been received
UpdOff ==
    /\ upd_old = << >>
    /\ upd_new = << >>
    /\ upd_past = << >>
    /\ upd_rec = << >>

\* no event buffer has been handed to parse_event
LenOff ==
    /\ ev_size = 0
    /\ ev_len = << 0, 0 >>
    /\ has_checksum = FALSE
    /\ payload_len = << >>

\* no rows event has been handed to parse_write_rows
RowOff ==
    /\ row_types = << >>
    /\ row_in = << >>
    /\ row_cut = 0
    /\ row_rec = << >>

TailOff == ExitOff /\ UpdOff /\ LenOff /\ RowOff

AuxOff == HelpOff /\ KaOff /\ MapOff /\ RelOff /\ TailOff

LoadDone ==
    /\ load_idx = Len(ConfigOrder) + 1
    /\ instance_count = Len(ConfigOrder)
    /\ plugin_api = [s \in Sinks |-> PUBLISHER_API_VERSION]
    /\ load_ret = [i \in 1..Len(ConfigOrder) |-> 0]
    /\ load_log = [i \in 1..Len(ConfigOrder) |-> "loaded"]

Init ==
    /\ PublisherInit(1..MaxCap, LoadAll(ConfigOrder, << >>))
    /\ StreamOff
    /\ ProjOff
    /\ LoadDone
    /\ AuxOff


(* ---- main thread: loops over manager->instances ----------------------- *)
\* A critical section on q_mutex is one step, taken when the mutex is free;
\* q_mutex records a holder only when the mutex stays held between steps.
Cur == instances[idx]

\* inst = inst->next; the loop ends after the last instance
Advance(loopPc, nextPc) ==
    IF idx < Len(instances)
    THEN pc' = loopPc /\ idx' = idx + 1
    ELSE pc' = nextPc /\ idx' = 1

\* publish_event moves to the next instance, or returns to the stream loop
\* (its parameter db is then out of scope)
DispatchAdvance ==
    IF idx < Len(instances)
    THEN pc' = "dispatch" /\ idx' = idx + 1 /\ UNCHANGED cur_db
    ELSE pc' = "stream" /\ idx' = 1 /\ cur_db' = NoDb

\* main: "Start all publishers" calling publisher_instance_start
StartInstance ==
    /\ pc = "start"
    /\ LET s == Cur IN
       IF ~active[s] \/ started[s]
       THEN UNCHANGED << started, thread_started, wpc, calls >>
       ELSE \E outcome \in {"ok", "start_failed", "thread_failed"} :
              /\ calls' = [calls EXCEPT ![s] = Append(@, "start")]
              /\ IF outcome = "ok"
                 THEN /\ wpc' = [wpc EXCEPT ![s] = "run"]
                      /\ thread_started' = [thread_started EXCEPT ![s] = TRUE]
                      /\ started' = [started EXCEPT ![s] = TRUE]
                 ELSE UNCHANGED << started, thread_started, wpc >>
    /\ Advance("start", "stream")
    /\ UNCHANGED << cfgvars, qvars, statvars, wevent, cur_db, event_copy,
                    enq_ret, stop_from, nevents, keep_running, heap,
                    attempts, enqLog, pubLog, counted,
                    copy_failures, publish_errors,
                    q_at_stop, offered >>
    /\ UNCHANGED nonpubvars

\* the signal handler clears the run flag; only the stream loop reads it
Signal ==
    /\ keep_running
    /\ pc = "stream"
    /\ keep_running' = FALSE
    /\ UNCHANGED << cfgvars, started, thread_started, qvars, statvars, wvars,
                    mainvars, heap, histvars >>
    /\ UNCHANGED nonpubvars

\* stream loop: one decoded event is handed to publish_event
EmitEvent ==
    /\ pc = "stream"
    /\ keep_running
    /\ nevents < MaxEvents
    /\ \E db \in Schemas : cur_db' = db
    /\ nevents' = nevents + 1
    /\ pc' = "dispatch"
    /\ idx' = 1
    /\ UNCHANGED << cfgvars, started, thread_started, qvars, statvars, wvars,
                    event_copy, enq_ret, stop_from, keep_running, heap,
                    histvars >>
    /\ UNCHANGED nonpubvars

\* main after the stream loop returns (MySQL and PostgreSQL alike): the
\* final save_position, then the replication connection is closed
ExitSteps == << "save_position", "close_connection" >>

\* stream loop ends: run flag cleared, or the fetch failed; main saves the
\* position, closes the connection and enters "Stop and cleanup publishers"
StreamExit ==
    /\ pc = "stream"
    /\ \E failed \in BOOLEAN : failed \/ ~keep_running
    /\ pc' = "stop_loop"
    /\ idx' = 1
    /\ exit_log' = exit_log \o ExitSteps
    /\ UNCHANGED << cfgvars, started, thread_started, qvars, statvars, wvars,
                    cur_db, event_copy, enq_ret, stop_from, nevents,
                    keep_running, heap, histvars >>
    /\ UNCHANGED nonexitvars

\* publish_event, one instance of the list: publisher_should_publish, then
\* publisher_instance_enqueue up to its pthread_mutex_lock
Dispatch ==
    /\ pc = "dispatch"
    /\ LET s == Cur IN
       IF publisher_should_publish(s, cur_db)
       THEN /\ attempts' = [attempts EXCEPT ![s] = @ + 1]
            /\ IF ~active[s]
               THEN /\ enq_ret' = -1
                    /\ DispatchAdvance
                    /\ UNCHANGED << event_copy, heap, events_dropped,
                                    copy_failures >>
               ELSE \E copied \in BOOLEAN :
                      IF copied
                      THEN /\ event_copy' = NewObj(heap, s)
                           /\ heap' = [heap EXCEPT ![NewObj(heap, s)] = "live"]
                           /\ pc' = "enq_lock"
                           /\ UNCHANGED << idx, cur_db, enq_ret,
                                           events_dropped, copy_failures >>
                      ELSE /\ copy_failures < MaxCopyFailures
                           /\ copy_failures' = copy_failures + 1
                           /\ events_dropped' =
                                  [events_dropped EXCEPT ![s] = @ + 1]
                           /\ enq_ret' = -1
                           /\ DispatchAdvance
                           /\ UNCHANGED << event_copy, heap >>
       ELSE /\ DispatchAdvance
            /\ UNCHANGED << attempts, event_copy, heap, enq_ret,
                            events_dropped, copy_failures >>
    /\ offered' = IF pc' = "stream" THEN << >>
                  ELSE IF publisher_should_publish(Cur, cur_db)
                       THEN Append(offered, Cur)
                       ELSE offered
    /\ UNCHANGED << cfgvars, started, thread_started, qvars,
                    events_published, errors, wvars, stop_from,
                    nevents, keep_running, enqLog, pubLog, counted,
                    publish_errors, calls,
                    q_at_stop >>
    /\ UNCHANGED nonpubvars

\* publisher_instance_enqueue: lock, the critical section, unlock, return
Enqueue ==
    /\ pc = "enq_lock"
    /\ q_mutex[Cur] = "free"
    /\ LET s == Cur IN
       IF QueueFull(s)
       THEN /\ heap' = cdc_event_free(heap, event_copy)
            /\ events_dropped' = [events_dropped EXCEPT ![s] = @ + 1]
            /\ enq_ret' = -1
            /\ UNCHANGED << queue, q_tail, q_count, wpc, enqLog >>
       ELSE /\ queue' = [queue EXCEPT ![s][q_tail[s]] = event_copy]
            /\ q_tail' = [q_tail EXCEPT ![s] = (@ + 1) % q_capacity[s]]
            /\ q_count' = [q_count EXCEPT ![s] = @ + 1]
            /\ wpc' = Wake(wpc, s)
            /\ enq_ret' = 0
            /\ enqLog' = [enqLog EXCEPT ![s] = Append(@, event_copy)]
            /\ UNCHANGED << heap, events_dropped >>
    /\ event_copy' = NULL
    /\ DispatchAdvance
    /\ offered' = IF pc' = "stream" THEN << >> ELSE offered
    /\ UNCHANGED << cfgvars, started, thread_started, q_head, q_stop, q_mutex,
                    events_published, errors, wevent, stop_from,
                    nevents, keep_running, attempts, pubLog, counted,
                    copy_failures, publish_errors, calls, q_at_stop >>
    /\ UNCHANGED nonpubvars

\* main: "Stop and cleanup publishers", the loop calling publisher_instance_stop
StopLoop ==
    /\ pc = "stop_loop"
    /\ IF started[Cur]
       THEN /\ pc' = "stop_lock"
            /\ stop_from' = "main"
            /\ UNCHANGED idx
       ELSE /\ Advance("stop_loop", "destroy")
            /\ UNCHANGED stop_from
    /\ UNCHANGED << cfgvars, started, thread_started, qvars, statvars, wvars,
                    cur_db, event_copy, enq_ret, nevents, keep_running, heap,
                    histvars >>
    /\ UNCHANGED nonpubvars

\* publisher_instance_stop: lock, q_stop = 1, broadcast, unlock
StopFlag ==
    /\ pc = "stop_lock"
    /\ q_mutex[Cur] = "free"
    /\ q_stop' = [q_stop EXCEPT ![Cur] = TRUE]
    /\ wpc' = Wake(wpc, Cur)
    /\ q_at_stop' = [q_at_stop EXCEPT ![Cur] = q_count[Cur]]
    /\ pc' = "stop_join"
    /\ UNCHANGED << cfgvars, started, thread_started, queue, q_head, q_tail,
                    q_count, q_mutex, statvars, wevent, idx, cur_db,
                    event_copy, enq_ret, stop_from, nevents, keep_running,
                    heap, attempts, enqLog, pubLog, counted,
                    copy_failures, publish_errors,
                    calls,
                    offered >>
    /\ UNCHANGED nonpubvars

\* publisher_instance_stop: pthread_join of the worker
StopJoin ==
    /\ pc = "stop_join"
    /\ JoinReturns(Cur)
    /\ thread_started' = [thread_started EXCEPT ![Cur] = FALSE]
    /\ pc' = "stop_cb"
    /\ UNCHANGED << cfgvars, started, qvars, statvars, wvars, idx, cur_db,
                    event_copy, enq_ret, stop_from, nevents, keep_running,
                    heap, histvars >>
    /\ UNCHANGED nonpubvars

\* publisher_instance_stop: the sink's stop callback, started = 0, return
StopCallback ==
    /\ pc = "stop_cb"
    /\ calls' = [calls EXCEPT ![Cur] = Append(@, "stop")]
    /\ started' = [started EXCEPT ![Cur] = FALSE]
    /\ IF stop_from = "main"
       THEN Advance("stop_loop", "destroy")
       ELSE pc' = "destroy_body" /\ UNCHANGED idx
    /\ UNCHANGED << cfgvars, thread_started, qvars, statvars, wvars, cur_db,
                    event_copy, enq_ret, stop_from, nevents, keep_running,
                    heap, attempts, enqLog, pubLog, counted,
                    copy_failures, publish_errors,
                    q_at_stop, offered >>
    /\ UNCHANGED nonpubvars

\* publisher_manager_destroy, one instance: publisher_instance_destroy with
\* the cleanup callback and queue_destroy
DestroyInstance ==
    /\ pc \in {"destroy", "destroy_body"}
    /\ LET s == Cur IN
       IF pc = "destroy" /\ started[s]
       THEN /\ pc' = "stop_lock"
            /\ stop_from' = "destroy"
            /\ UNCHANGED << idx, calls, heap, queue >>
       ELSE /\ q_mutex[s] = "free"
            /\ calls' = [calls EXCEPT ![s] = Append(@, "cleanup")]
            /\ heap' = FreeSlots(heap, queue[s], DestroySlots(s))
            /\ queue' = [queue EXCEPT ![s] = << >>]
            /\ Advance("destroy", "done")
            /\ UNCHANGED stop_from
    /\ exit_log' = IF pc' = "done" THEN Append(exit_log, "release_caches")
                   ELSE exit_log
    /\ UNCHANGED << cfgvars, started, thread_started, q_head, q_tail,
                    q_count, q_stop, q_mutex, statvars, wvars, cur_db,
                    event_copy, enq_ret, nevents, keep_running,
                    attempts, enqLog, pubLog, counted,
                    copy_failures, publish_errors,
                    q_at_stop, offered >>
    /\ UNCHANGED nonexitvars

(* ---- worker thread of sink s: publisher_worker_thread ----------------- *)

\* one pass of the loop up to the publish call: lock, then wait, exit, or
\* take the record at the head, unlock and call the sink's publish callback
WorkerTake(s) ==
    /\ wpc[s] = "run"
    /\ q_mutex[s] = "free"
    /\ IF q_count[s] = 0 /\ ~q_stop[s]
       THEN /\ wpc' = [wpc EXCEPT ![s] = "wait"]
            /\ UNCHANGED << queue, q_head, q_count, q_mutex, wevent, pubLog >>
       ELSE IF WorkerExitCond(s)
       THEN /\ wpc' = [wpc EXCEPT ![s] = "exited"]
            /\ UNCHANGED << queue, q_head, q_count, q_mutex, wevent, pubLog >>
       ELSE LET event == queue[s][DequeueIndex(s)] IN
            /\ queue' = [queue EXCEPT ![s][DequeueIndex(s)] = NULL]
            /\ q_head' = [q_head EXCEPT ![s] = (@ + 1) % q_capacity[s]]
            /\ q_count' = [q_count EXCEPT ![s] = @ - 1]
            /\ q_mutex' = [q_mutex EXCEPT ![s] = MutexAfterPop(s)]
            /\ IF event # NULL
               THEN /\ wevent' = [wevent EXCEPT ![s] = event]
                    /\ pubLog' = [pubLog EXCEPT ![s] = Append(@, event)]
                    /\ wpc' = [wpc EXCEPT ![s] = "in_publish"]
               ELSE UNCHANGED << wevent, pubLog, wpc >>
    /\ UNCHANGED << cfgvars, started, thread_started, q_tail, q_stop,
                    statvars, mainvars, keep_running, heap, attempts, enqLog,
                    counted,
                    copy_failures, publish_errors, calls, q_at_stop, offered >>
    /\ UNCHANGED nonpubvars

\* publish returns ret: count it, free the record, loop
WorkerPublishReturn(s) ==
    /\ wpc[s] = "in_publish"
    /\ \E ret \in {0, -1} :
         LET cnt == PublishCount(s, ret) IN
         /\ ret # 0 => publish_errors < MaxPublishErrors
         /\ publish_errors' = IF ret # 0 THEN publish_errors + 1
                               ELSE publish_errors
         /\ events_published' = [events_published EXCEPT ![s] = cnt[1]]
         /\ errors' = [errors EXCEPT ![s] = cnt[2]]
         /\ counted' = [counted EXCEPT ![wevent[s]] =
                @ + (cnt[1] - events_published[s]) + (cnt[2] - errors[s])]
    /\ heap' = cdc_event_free(heap, wevent[s])
    /\ wevent' = [wevent EXCEPT ![s] = NULL]
    /\ wpc' = [wpc EXCEPT ![s] = "run"]
    /\ UNCHANGED << cfgvars, started, thread_started, qvars, events_dropped,
                    mainvars, keep_running, attempts, enqLog, pubLog,
                    copy_failures, calls, q_at_stop, offered >>
    /\ UNCHANGED nonpubvars

MainNext ==
    \/ StartInstance
    \/ EmitEvent
    \/ StreamExit
    \/ Dispatch
    \/ Enqueue
    \/ StopLoop
    \/ StopFlag
    \/ StopJoin
    \/ StopCallback
    \/ DestroyInstance

WorkerNext(s) ==
    \/ WorkerTake(s)
    \/ WorkerPublishReturn(s)

Next ==
    \/ MainNext
    \/ Signal
    \/ \E s \in Sinks : WorkerNext(s)

Spec == Init /\ [][Next]_vars

\* the decoder and the workers keep running; no publish call need return
FairSpec ==
    /\ Init /\ [][Next]_vars
    /\ WF_vars(MainNext)
    /\ \A s \in Sinks : WF_vars(WorkerTake(s))

\* as FairSpec, and every publish call of sink 1 returns; the sink at the
\* head of the instance list (sink 2, loaded last) may hang in publish
ShutdownSpec ==
    /\ Init /\ [][Next]_vars
    /\ WF_vars(MainNext)
    /\ \A s \in Sinks : WF_vars(WorkerTake(s))
    /\ WF_vars(WorkerPublishReturn(1))

\* as FairSpec, and every publish call of every sink returns
StopInit ==
    /\ PublisherInit({MaxCap}, LoadAll(ConfigOrder, << >>))
    /\ StreamOff
    /\ ProjOff
    /\ LoadDone
    /\ AuxOff

StopSpec ==
    /\ StopInit /\ [][Next]_vars
    /\ WF_vars(MainNext)
    /\ \A s \in Sinks : WF_vars(WorkerTake(s))
    /\ \A s \in Sinks : WF_vars(WorkerPublishReturn(s))

(* ==== stream decoders and the checkpoint file ========================== *)
\* publish_event: publisher_instance_enqueue is called, in list order, on
\* every instance publisher_should_publish accepts
OfferedSinks(db) ==
    SelectSeq(instances, LAMBDA s : publisher_should_publish(s, db))

\* restore_position (MySQL): fscanf("%255s\n%llu\n") needs a non-empty
\* name on the first line; save_position wrote "%s\n%llu\n"
RestoreOk(c) == c # NoCkpt /\ c[1] # 0

\* the position main hands to mysql_binlog_open
\* (faulty variant: the restored checkpoint is not used)
StartPosition_config(c) == ConfigStart
StartPosition(c) == IF RestoreOk(c) THEN c ELSE ConfigStart

\* parse_query: current_txn_id after the BEGIN / DDL / other branches
\* (faulty variant: BEGIN keeps an id that is already set)
QueryTxnId_keep(is_begin, in_tx, cur, fresh) ==
    IF is_begin THEN (IF cur # NoTxn THEN cur ELSE fresh)
    ELSE IF in_tx = 0 THEN fresh
    ELSE cur
QueryTxnId(is_begin, in_tx, cur, fresh) ==
    IF is_begin THEN fresh
    ELSE IF in_tx = 0 THEN fresh
    ELSE cur

\* number of records already passed to publish_event when parse_event
\* reaches its save_position call: the switch runs first
\* (faulty variant: the checkpoint is written before the event is handled)
RecordsAtSave_early(before, after) == before
RecordsAtSave(before, after) == after

\* one save_position call that wrote the file
WriteEntry_stale(pos, nrec, upto) ==
    [pos |-> checkpoint, nrec |-> nrec, run |-> run, upto |-> upto]
WriteEntry(pos, nrec, upto) ==
    [pos |-> pos, nrec |-> nrec, run |-> run, upto |-> upto]

\* main (MySQL): restore_position, mysql_binlog_open
MyStart ==
    /\ dialect = "mysql"
    /\ dpc \in {"boot", "stopped"}
    /\ dpc = "stopped" => run < MaxRestarts
    /\ LET start == StartPosition(checkpoint) IN
       /\ feed' = ServerFeed(start[1], start[2])
       /\ start_req' = start
       /\ parsed_upto' = start
    /\ restored' = checkpoint
    /\ run' = IF dpc = "stopped" THEN run + 1 ELSE run
    /\ dpc' = "streaming"
    /\ current_binlog' = 0
    /\ current_position' = FirstPos
    /\ current_lsn' = 0
    /\ events_since_save' = 0
    /\ current_txn_id' = NoTxn
    /\ in_transaction' = 0
    /\ g_map_table_id' = 0
    /\ g_map_db' = ""
    /\ relations' = << >>
    /\ UNCHANGED << dialect, save_count, checkpoint, slot_lsn, next_uuid,
                    emitted, writes, slot_seen >>
    /\ UNCHANGED pubvars
    /\ UNCHANGED << projvars, loadvars, auxvars >>

\* stream_binlog: one mysql_binlog_fetch and parse_event, with the handler
\* of the event type, publish_event and the checkpoint policy
\* the checkpoint policy with save_last_position set: with
\* save_position_event_count n = 0 every test saves, otherwise a test
\* saves once the count of events since the last save has reached n
SaveDue_late(n, since) == n = 0 \/ since > n
SaveDue(n, since) == n = 0 \/ since >= n

MyParseEvent ==
    /\ dialect = "mysql"
    /\ dpc = "streaming"
    /\ feed # << >>
    /\ LET e == Head(feed)
           pos1 == IF e.next_pos > 0 THEN e.next_pos ELSE current_position
           is_query == e.type = "QUERY"
           is_begin == is_query /\ e.query = "BEGIN"
           is_end == is_query /\ e.query \in {"COMMIT", "ROLLBACK"}
           is_ddl == is_query /\ e.query \in DdlVerbs
           is_xid == e.type = "XID"
           is_rotate == e.type = "ROTATE"
           tm_captured == /\ e.type = "TABLE_MAP"
                          /\ should_capture_table(e.db)
                          /\ should_capture_dml(e.db)
           fresh == next_uuid + 1
           new_id == \/ is_query /\ (is_begin \/ in_transaction = 0)
                     \/ tm_captured /\ in_transaction = 0
           txn1 == IF is_query
                   THEN QueryTxnId(is_begin, in_transaction,
                                   current_txn_id, fresh)
                   ELSE IF tm_captured /\ in_transaction = 0 THEN fresh
                   ELSE current_txn_id
           Rec(kind, txn) ==
               [kind |-> kind, pos |-> << current_binlog, pos1 >>,
                txn |-> txn, stxn |-> e.stxn, ev |-> e.ev, run |-> run,
                sinks |-> OfferedSinks(e.db),
                tend |-> << current_binlog, pos1 >>]
           recs == IF is_ddl /\ should_capture_ddl(e.db)
                   THEN << Rec("DDL", txn1) >>
                   ELSE IF /\ is_xid
                           /\ in_transaction = 1
                           /\ current_txn_id # NoTxn
                           /\ should_capture_ddl(g_map_db)
                   THEN << [Rec("COMMIT", current_txn_id)
                              EXCEPT !.sinks = OfferedSinks(g_map_db)] >>
                   ELSE IF e.type \in RowsTypes /\ g_map_table_id # 0
                   THEN << [Rec(e.type, current_txn_id)
                              EXCEPT !.sinks = OfferedSinks(g_map_db)] >>
                   ELSE << >>
           binlog1 == IF is_rotate THEN e.rot_file ELSE current_binlog
           pos2 == IF is_rotate THEN e.rot_pos ELSE pos1
           since1 == (IF is_rotate THEN 0 ELSE events_since_save) + 1
           save_now == SaveDue(save_count, since1)
           out == emitted \o recs
           nrec == RecordsAtSave(Len(emitted), Len(out))
           w_rotate == IF is_rotate
                       THEN << WriteEntry(<< binlog1, pos2 >>, nrec, e.at) >>
                       ELSE << >>
           w_policy == IF save_now
                       THEN << WriteEntry(<< binlog1, pos2 >>, nrec, e.at) >>
                       ELSE << >>
       IN
       /\ feed' = Tail(feed)
       /\ current_binlog' = binlog1
       /\ current_position' = pos2
       /\ current_txn_id' = IF is_end \/ is_xid THEN NoTxn ELSE txn1
       /\ in_transaction' = IF is_end \/ is_xid THEN 0
                            ELSE IF is_begin THEN 1
                            ELSE IF tm_captured /\ in_transaction = 0 THEN 1
                            ELSE in_transaction
       /\ next_uuid' = IF new_id THEN fresh ELSE next_uuid
       /\ g_map_table_id' = IF e.type = "TABLE_MAP"
                            THEN (IF tm_captured THEN e.tid ELSE 0)
                            ELSE g_map_table_id
       /\ g_map_db' = IF e.type = "TABLE_MAP" THEN e.db ELSE g_map_db
       /\ emitted' = out
       /\ events_since_save' = IF save_now THEN 0 ELSE since1
       /\ writes' = writes \o w_rotate \o w_policy
       /\ checkpoint' = IF is_rotate \/ save_now THEN << binlog1, pos2 >>
                        ELSE checkpoint
       /\ parsed_upto' = e.at
    /\ UNCHANGED << dialect, save_count, dpc, run, current_lsn, relations,
                    slot_lsn, restored, start_req, slot_seen >>
    /\ UNCHANGED pubvars
    /\ UNCHANGED << projvars, loadvars, auxvars >>

\* signal_handler clears keep_running, or the fetch fails: stream_binlog
\* returns and main writes the final checkpoint
MyShutdown ==
    /\ dialect = "mysql"
    /\ dpc = "streaming"
    /\ writes' = Append(writes,
                        WriteEntry(<< current_binlog, current_position >>,
                                   Len(emitted), parsed_upto))
    /\ checkpoint' = << current_binlog, current_position >>
    /\ dpc' = "stopped"
    /\ UNCHANGED << dialect, save_count, run, feed, decstate, slot_lsn,
                    next_uuid, emitted, restored, start_req, slot_seen,
                    parsed_upto >>
    /\ UNCHANGED pubvars
    /\ UNCHANGED << projvars, loadvars, auxvars >>

\* main (PostgreSQL): restore_position, read_slot_confirmed_flush_lsn with
\* the clamp, START_REPLICATION; the walsender starts decoding at the later
\* of the requested LSN and the slot's confirmed_flush_lsn
PgStart ==
    /\ dialect = "pg"
    /\ dpc \in {"boot", "stopped"}
    /\ dpc = "stopped" => run < MaxRestarts
    /\ \E readable \in BOOLEAN :
         LET base == IF checkpoint # NoCkpt THEN checkpoint[2] ELSE 0
             start_lsn == IF readable /\ base > slot_lsn THEN slot_lsn
                          ELSE base
             from == Max2(start_lsn, slot_lsn)
         IN
         /\ current_lsn' = start_lsn
         /\ feed' = WithKeepalives(PgFeed(from), ka_plan, 1)
         /\ slot_lsn' = from
         /\ slot_seen' = IF readable THEN slot_lsn ELSE -1
         /\ start_req' = << 0, start_lsn >>
         /\ parsed_upto' = << 0, start_lsn >>
    /\ current_binlog' = 0
    /\ current_position' = FirstPos
    /\ events_since_save' = 0
    /\ current_txn_id' = NoTxn
    /\ in_transaction' = 0
    /\ g_map_table_id' = 0
    /\ g_map_db' = ""
    /\ relations' = << >>
    /\ restored' = checkpoint
    /\ run' = IF dpc = "stopped" THEN run + 1 ELSE run
    /\ dpc' = "streaming"
    /\ UNCHANGED << dialect, save_count, checkpoint, next_uuid, emitted,
                    writes >>
    /\ UNCHANGED pubvars
    /\ ka_log' = << >>
    /\ UNCHANGED << projvars, loadvars, helpvars, ka_plan, mapvars, relvars, tailvars >>

\* stream_changes: one XLogData message with its pgoutput handler
\* (parse_begin_message, parse_commit_message, parse_relation_message,
\* parse_insert_message)
PgHandleMessage ==
    /\ dialect = "pg"
    /\ dpc \in {"streaming", "draining"}
    /\ feed # << >>
    /\ Head(feed).type # "KEEPALIVE"
    /\ LET m == Head(feed)
           is_begin == m.type = "BEGIN"
           is_commit == m.type = "COMMIT"
           rel == find_relation(relations, m.relid)
           published == /\ m.type = "INSERT"
                        /\ rel # NoRel
                        /\ should_capture_dml(CaptureDb)
                        /\ rel.name \in Tables
           recs == IF published
                   THEN << [kind |-> "INSERT", pos |-> << 0, m.lsn >>,
                            txn |-> current_txn_id, stxn |-> m.stxn,
                            ev |-> m.ev, run |-> run,
                            sinks |-> OfferedSinks(CaptureDb),
                            tend |-> << 0, m.tend >>] >>
                   ELSE << >>
           lsn1 == IF is_commit THEN m.end_lsn ELSE m.lsn
           since1 == IF published THEN events_since_save + 1
                     ELSE events_since_save
           save_now == is_commit /\ SaveDue(save_count, since1)
           out == emitted \o recs
           upto == IF PosLeq(parsed_upto, << 0, lsn1 >>) THEN << 0, lsn1 >>
                   ELSE parsed_upto
       IN
       /\ feed' = Tail(feed)
       /\ current_lsn' = lsn1
       /\ current_txn_id' = IF is_begin THEN next_uuid + 1
                            ELSE IF is_commit THEN NoTxn
                            ELSE current_txn_id
       /\ in_transaction' = IF is_begin THEN 1
                            ELSE IF is_commit THEN 0
                            ELSE in_transaction
       /\ next_uuid' = IF is_begin THEN next_uuid + 1 ELSE next_uuid
       /\ relations' = IF /\ m.type = "RELATION"
                          /\ should_capture_table(CaptureDb)
                          /\ m.name \in Tables
                       THEN << [relid |-> m.relid, name |-> m.name] >>
                            \o relations
                       ELSE relations
       /\ emitted' = out
       /\ events_since_save' = IF save_now THEN 0 ELSE since1
       /\ writes' = IF save_now
                    THEN Append(writes,
                                WriteEntry(<< 0, lsn1 >>,
                                           RecordsAtSave(Len(emitted),
                                                         Len(out)),
                                           upto))
                    ELSE writes
       /\ checkpoint' = IF save_now THEN << 0, lsn1 >> ELSE checkpoint
       /\ parsed_upto' = upto
    /\ UNCHANGED << dialect, save_count, dpc, run, current_binlog,
                    current_position, g_map_table_id, g_map_db, slot_lsn,
                    restored, start_req, slot_seen >>
    /\ UNCHANGED pubvars
    /\ UNCHANGED << projvars, loadvars, auxvars >>

\* the 'r' message send_status_update builds
send_status_update_ask(lsn) ==
    [type |-> "r", write_lsn |-> lsn, flush_lsn |-> lsn, apply_lsn |-> lsn,
     reply_requested |-> 1]

send_status_update(lsn) ==
    [type |-> "r", write_lsn |-> lsn, flush_lsn |-> lsn, apply_lsn |-> lsn,
     reply_requested |-> 0]

\* stream_changes: one keepalive message; when it asks for a reply the
\* status update is sent and flushed before the next PQgetCopyData, and a
\* failed send clears keep_running (the loop still drains what is buffered)
PgHandleKeepalive ==
    /\ dialect = "pg"
    /\ dpc \in {"streaming", "draining"}
    /\ feed # << >>
    /\ Head(feed).type = "KEEPALIVE"
    /\ LET m == Head(feed)
       IN \E send_ok \in IF m.reply THEN BOOLEAN ELSE {TRUE} :
          /\ feed' = Tail(feed)
          /\ ka_log' =
               IF m.reply
               THEN Append(ka_log,
                           [id |-> m.id, lsn |-> current_lsn,
                            ok |-> send_ok,
                            sent |-> IF send_ok
                                     THEN << send_status_update(current_lsn) >>
                                     ELSE << >>,
                            flushed |-> send_ok])
               ELSE ka_log
          /\ slot_lsn' = IF m.reply /\ send_ok
                         THEN Max2(slot_lsn, current_lsn) ELSE slot_lsn
          /\ dpc' = IF m.reply /\ ~send_ok THEN "draining" ELSE dpc
    /\ UNCHANGED << dialect, save_count, run, decstate, checkpoint,
                    next_uuid, emitted, writes, restored, start_req,
                    slot_seen, parsed_upto >>
    /\ UNCHANGED pubvars
    /\ UNCHANGED << projvars, loadvars, helpvars, ka_plan, mapvars, relvars, tailvars >>

\* send_status_update (every 10 seconds, or on a keepalive that asks for a
\* reply) reports current_lsn as flushed; the slot only moves forward
PgStatusUpdate ==
    /\ dialect = "pg"
    /\ dpc = "streaming"
    /\ slot_lsn' = Max2(slot_lsn, current_lsn)
    /\ UNCHANGED << dialect, save_count, dpc, run, feed, decstate,
                    checkpoint, next_uuid, emitted, writes, restored,
                    start_req, slot_seen, parsed_upto >>
    /\ UNCHANGED pubvars
    /\ UNCHANGED << projvars, loadvars, auxvars >>

\* keep_running cleared or the copy stream ends: stream_changes sends a
\* last status update, which may not reach the server, and main writes
\* the final checkpoint
PgShutdown ==
    /\ dialect = "pg"
    /\ dpc \in {"streaming", "draining"}
    /\ \E delivered \in BOOLEAN :
         slot_lsn' = IF delivered THEN Max2(slot_lsn, current_lsn)
                     ELSE slot_lsn
    /\ writes' = Append(writes,
                        WriteEntry(<< 0, current_lsn >>, Len(emitted),
                                   parsed_upto))
    /\ checkpoint' = << 0, current_lsn >>
    /\ dpc' = "stopped"
    /\ UNCHANGED << dialect, save_count, run, feed, decstate, next_uuid,
                    emitted, restored, start_req, slot_seen, parsed_upto >>
    /\ UNCHANGED pubvars
    /\ UNCHANGED << projvars, loadvars, auxvars >>

\* before the first start: no checkpoint file, the slot just created
StreamInit ==
    /\ PublisherInit({1}, LoadAll(ConfigOrder, << >>))
    /\ dialect \in {"mysql", "pg"}
    /\ save_count \in SaveCounts
    /\ dpc = "boot"
    /\ run = 0
    /\ feed = << >>
    /\ DecoderStatics
    /\ checkpoint = NoCkpt
    /\ slot_lsn = 0
    /\ next_uuid = 0
    /\ emitted = << >>
    /\ writes = << >>
    /\ restored = NoCkpt
    /\ start_req = NoCkpt
    /\ slot_seen = -1
    /\ parsed_upto = NoCkpt
    /\ ProjOff
    /\ LoadDone
    /\ AuxOff

StreamNext ==
    \/ MyStart
    \/ MyParseEvent
    \/ MyShutdown
    \/ PgStart
    \/ PgHandleMessage
    \/ PgStatusUpdate
    \/ PgShutdown

StreamSpec == StreamInit /\ [][StreamNext]_vars

\* the MySQL decoder on a session of BEGIN, TABLE_MAP, rows and XID events
\* over three schemas: the fully captured one, the one with capture_ddl
\* clear, and one the configuration does not name
XidKinds == {"BEGIN", "MAP_A", "MAP_M", "MAP_X", "ROWS", "XID"}
XidEvent(kind, k) ==
    [type |-> IF kind = "BEGIN" THEN "QUERY"
              ELSE IF kind = "ROWS" THEN "WRITE_ROWS"
              ELSE IF kind = "XID" THEN "XID"
              ELSE "TABLE_MAP",
     query |-> IF kind = "BEGIN" THEN "BEGIN" ELSE "",
     stxn |-> 1, ev |-> k,
     db |-> IF kind = "MAP_M" THEN DmlOnlyDb
            ELSE IF kind = "MAP_X" THEN OtherDb
            ELSE CaptureDb,
     tid |-> CaptureTid,
     next_pos |-> FirstPos + k, rot_file |-> 1, rot_pos |-> FirstPos,
     at |-> << 1, FirstPos + k >>]
XidFeeds ==
    UNION {{[k \in 1..n |-> XidEvent(b[k], k)] : b \in [1..n -> XidKinds]} :
             n \in 1..MaxXidEvents}

XidInit ==
    /\ PublisherInit({1}, LoadAll(ConfigOrder, << >>))
    /\ dialect = "mysql"
    /\ save_count \in SaveCounts
    /\ dpc = "streaming"
    /\ run = 0
    /\ rel_feed \in XidFeeds
    /\ feed = rel_feed
    /\ current_binlog = 1
    /\ current_position = FirstPos
    /\ current_lsn = 0
    /\ events_since_save = 0
    /\ current_txn_id = NoTxn
    /\ in_transaction = 0
    /\ g_map_table_id = 0
    /\ g_map_db = ""
    /\ relations = << >>
    /\ checkpoint = NoCkpt
    /\ slot_lsn = 0
    /\ next_uuid = 0
    /\ emitted = << >>
    /\ writes = << >>
    /\ restored = NoCkpt
    /\ start_req = << 1, FirstPos >>
    /\ slot_seen = -1
    /\ parsed_upto = << 1, FirstPos >>
    /\ ProjOff
    /\ LoadDone
    /\ HelpOff
    /\ TailOff
    /\ KaOff
    /\ MapOff

XidNext ==
    \/ MyParseEvent
    \/ MyShutdown

XidSpec == XidInit /\ [][XidNext]_vars

(* ---- parse_update_message (PostgreSQL) --------------------------------- *)
\* the bytes pgoutput uses: tuple markers 'N', 'K', 'O' and column kinds
\* 't' (text), 'n' (null), 'u' (unchanged toast)
Byte == [N |-> 78, K |-> 75, O |-> 79, t |-> 116, n |-> 110, u |-> 117,
         x |-> 120, y |-> 121]
\* a column without data renders as JSON null
NullCol == << -1 >>
\* rel->natts of the captured relation, every column captured
UpdNatts == Len(TableCols[PgTable])

\* big-endian integers of the message
Int16(v) == << v \div 256, v % 256 >>
Int32(v) == << 0, 0 >> \o Int16(v)
\* a column as the server sends it
EncCol(c) ==
    IF c.kind = "t" THEN << Byte.t >> \o Int32(Len(c.val)) \o c.val
    ELSE IF c.kind = "n" THEN << Byte.n >>
    ELSE << Byte.u >>
RECURSIVE EncCols(_)
EncCols(cols) ==
    IF cols = << >> THEN << >>
    ELSE EncCol(Head(cols)) \o EncCols(Tail(cols))
EncTuple(marker, cols) == << marker >> \o Int16(Len(cols)) \o EncCols(cols)
\* the message behind its relation id
UpdBody(old, new) ==
    (IF old = << >> THEN << >> ELSE EncTuple(old.marker, old.cols))
    \o EncTuple(Byte.N, new)

\* the tuples of the sessions explored
UpdColumns ==
    {[kind |-> "t", val |-> << Byte.x >>], [kind |-> "t", val |-> << Byte.y >>],
     [kind |-> "n", val |-> << >>], [kind |-> "u", val |-> << >>]}
UpdTuples == UNION {[1..n -> UpdColumns] : n \in 1..UpdNatts}
UpdOlds == {[marker |-> m, cols |-> c] : m \in {Byte.K, Byte.O}, c \in UpdTuples}
\* what a column of the tuple renders as
ColValue(c) == IF c.kind = "t" THEN c.val ELSE NullCol
TupleValues(cols) == [i \in 1..Len(cols) |-> ColValue(cols[i])]

\* pg_getmsgint16 / pg_getmsgint32 at position pos of the buffer
GetInt16(mem, pos) == mem[pos] * 256 + mem[pos + 1]
GetInt32(mem, pos) ==
    ((mem[pos] * 256 + mem[pos + 1]) * 256 + mem[pos + 2]) * 256 + mem[pos + 3]

\* the column loop: n columns read from position pos; over is set when a
\* read leaves the bytes the model knows (the values are then undefined)
RECURSIVE ReadCols(_, _, _, _)
ReadCols(mem, pos, n, acc) ==
    IF n = 0 THEN [pos |-> pos, vals |-> acc, over |-> FALSE]
    ELSE IF pos > Len(mem) THEN [pos |-> pos, vals |-> acc, over |-> TRUE]
    ELSE IF mem[pos] = Byte.t
    THEN IF pos + 4 > Len(mem) \/ mem[pos + 1] # 0
         THEN [pos |-> pos, vals |-> acc, over |-> TRUE]
         ELSE LET len == GetInt32(mem, pos + 1) IN
              IF pos + 4 + len > Len(mem)
              THEN [pos |-> pos, vals |-> acc, over |-> TRUE]
              ELSE ReadCols(mem, pos + 5 + len, n - 1,
                            Append(acc, SubSeq(mem, pos + 5, pos + 4 + len)))
    ELSE ReadCols(mem, pos + 1, n - 1, Append(acc, NullCol))

Min2(a, b) == IF a <= b THEN a ELSE b

\* parse_update_message behind the relation id: the tuple marker, the
\* KEY/OLD tuple if the marker is 'K' or 'O', then one more marker byte
\* and the NEW tuple; columns beyond rel->natts are read and not rendered
parse_update_message(mem, natts) ==
    LET old_tuple_type == mem[1]
        has_old == old_tuple_type \in {Byte.K, Byte.O}
        old_ncols == IF has_old THEN GetInt16(mem, 2) ELSE 0
        old == IF has_old THEN ReadCols(mem, 4, old_ncols, << >>)
               ELSE [pos |-> 2, vals |-> << >>, over |-> FALSE]
        \* uint8_t new_tuple_type = pg_getmsgbyte(ptr), then the count
        new_ncols == GetInt16(mem, old.pos + 1)
        new == ReadCols(mem, old.pos + 3, Min2(new_ncols, natts), << >>)
    IN  [has_before |-> has_old,
         before |-> SubSeq(old.vals, 1, Min2(Len(old.vals), natts)),
         after |-> new.vals,
         new_ncols |-> new_ncols,
         over |-> old.over \/ new.over]

\* one UPDATE message of the captured relation is received and handled
UpdInit ==
    /\ PublisherInit({1}, LoadAll(ConfigOrder, << >>))
    /\ StreamOff
    /\ ProjOff
    /\ LoadDone
    /\ HelpOff
    /\ KaOff
    /\ MapOff
    /\ RelOff
    /\ ExitOff
    /\ LenOff
    /\ RowOff
    /\ upd_old \in UpdOlds \cup {<< >>}
    /\ upd_new \in UpdTuples
    /\ upd_past \in [1..UpdPastLen -> {0, Byte.n, Byte.t}]
    /\ upd_rec = << >>

UpdParse ==
    /\ upd_new # << >>
    /\ upd_rec = << >>
    /\ upd_rec' = << parse_update_message(UpdBody(upd_old, upd_new)
                                           \o upd_past, UpdNatts) >>
    /\ UNCHANGED << upd_old, upd_new, upd_past >>
    /\ UNCHANGED << pubvars, streamvars, projvars, loadvars, helpvars,
                    kavars, mapvars, relvars, exitvars, lenvars, rowvars >>

UpdNext == UpdParse

UpdSpec == UpdInit /\ [][UpdNext]_vars

(* ---- parse_event (MySQL): the lengths of one event buffer -------------- *)
\* the event header behind the leading status byte
HeaderLen == 19
\* uint32_t values as << high 16 bits, low 16 bits >>
Half == 65536
U32(v) == << 0, v >>
U32Leq(a, b) == a[1] < b[1] \/ (a[1] = b[1] /\ a[2] <= b[2])
\* a - v modulo 2^32, for 0 <= v < 2^16
U32Sub(a, v) ==
    IF a[2] >= v THEN << a[1], a[2] - v >>
    ELSE << (a[1] + Half - 1) % Half, a[2] + Half - v >>

\* parse_event up to the switch: the payload length the handlers get,
\* << >> when it returns -1 before
PayloadLen(size, event_len, checksum) ==
    IF size < 1 THEN << >>
    ELSE IF size - 1 < HeaderLen THEN << >>
    ELSE LET size1 == U32(size - 1)
             len1 == IF U32Leq(event_len, size1) THEN event_len ELSE size1
             pl == U32Sub(len1, HeaderLen)
         IN  << IF checksum /\ U32Leq(U32(4), pl) THEN U32Sub(pl, 4)
                ELSE pl >>

\* the length fields explored: below the header length, around the buffer
\* size, and with high bits set
LenFields ==
    {<< hi, lo >> : hi \in {0, 1, Half - 1}, lo \in 0..(MaxSize + 2)}

LenInit ==
    /\ PublisherInit({1}, LoadAll(ConfigOrder, << >>))
    /\ StreamOff
    /\ ProjOff
    /\ LoadDone
    /\ HelpOff
    /\ KaOff
    /\ MapOff
    /\ RelOff
    /\ ExitOff
    /\ UpdOff
    /\ RowOff
    /\ ev_size \in (HeaderLen - 1)..MaxSize
    /\ ev_len \in LenFields
    /\ has_checksum \in BOOLEAN
    /\ payload_len = << >>

ParseEventLen ==
    /\ ev_size > 0
    /\ payload_len = << >>
    /\ PayloadLen(ev_size, ev_len, has_checksum) # << >>
    /\ payload_len' = PayloadLen(ev_size, ev_len, has_checksum)
    /\ UNCHANGED << ev_size, ev_len, has_checksum >>
    /\ UNCHANGED << pubvars, streamvars, projvars, loadvars, helpvars,
                    kavars, mapvars, relvars, exitvars, updvars, rowvars >>

LenNext == ParseEventLen

LenSpec == LenInit /\ [][LenNext]_vars

(* ---- parse_write_rows (MySQL): the rows of one event -------------------- *)
\* the mapped table has RowCols columns, all present in the event and all
\* captured; a value of a known type is one byte long, the null bitmap of
\* a row image one byte
RowCols == 1..Len(TableCols["orders"])
RowImageLen(nulls) == 1 + Cardinality(RowCols \ nulls)
RECURSIVE RowDataLen(_)
RowDataLen(rows) ==
    IF rows = << >> THEN 0
    ELSE RowImageLen(Head(rows)) + RowDataLen(Tail(rows))

\* parse_row_to_json_filtered on a row image with len bytes left: the
\* rendered columns, whether the closing brace was written (return 0), and
\* the bytes consumed. append_column_value_to_json renders an unknown type
\* as null without advancing p.
RECURSIVE RenderCols(_, _, _, _, _, _)
RenderCols(types, nulls, len, i, consumed, cols) ==
    IF i > Len(types) THEN [cols |-> cols, closed |-> TRUE, used |-> consumed]
    ELSE LET is_null == i \in nulls
             advance == IF is_null \/ types[i] = "unknown" THEN 0 ELSE 1
             text == IF is_null \/ types[i] = "unknown" THEN "null"
                     ELSE "value"
             cols1 == Append(cols, text)
         IN  IF advance = 0 /\ ~is_null
             THEN [cols |-> cols1, closed |-> FALSE, used |-> consumed]
             ELSE IF consumed + advance > len
             THEN [cols |-> cols1, closed |-> FALSE, used |-> consumed]
             ELSE RenderCols(types, nulls, len, i + 1, consumed + advance,
                             cols1)
parse_row_to_json_filtered_row(types, nulls, len) ==
    RenderCols(types, nulls, len, 1, 1, << >>)

\* the while loop of parse_write_rows: rows are rendered while at least
\* min_row_size bytes are left; a failed row ends the loop
RECURSIVE RowsLoop(_, _, _, _)
RowsLoop(types, rows, len, out) ==
    IF len < 1 \/ rows = << >> THEN out
    ELSE LET r == parse_row_to_json_filtered_row(types, Head(rows), len)
             out1 == Append(out, [cols |-> r.cols, closed |-> r.closed])
         IN  IF ~r.closed THEN out1
             ELSE RowsLoop(types, Tail(rows), len - r.used, out1)

\* parse_write_rows: the record is published when row_num > 0
parse_write_rows(types, rows, row_len) ==
    LET out == RowsLoop(types, rows, row_len, << >>)
    IN  IF out = << >> THEN << >> ELSE << [rows |-> out] >>

RowInit ==
    /\ PublisherInit({1}, LoadAll(ConfigOrder, << >>))
    /\ StreamOff
    /\ ProjOff
    /\ LoadDone
    /\ HelpOff
    /\ KaOff
    /\ MapOff
    /\ RelOff
    /\ ExitOff
    /\ UpdOff
    /\ LenOff
    /\ row_types \in [RowCols -> {"int", "unknown"}]
    /\ row_in \in UNION {[1..n -> SUBSET RowCols] : n \in 1..MaxRows}
    /\ row_cut \in {0, 1}
    /\ row_rec = << >>

ParseWriteRows ==
    /\ row_in # << >>
    /\ row_rec = << >>
    /\ parse_write_rows(row_types, row_in, RowDataLen(row_in) - row_cut)
         # << >>
    /\ row_rec' = parse_write_rows(row_types, row_in,
                                   RowDataLen(row_in) - row_cut)
    /\ UNCHANGED << row_types, row_in, row_cut >>
    /\ UNCHANGED << pubvars, streamvars, projvars, loadvars, helpvars,
                    kavars, mapvars, relvars, exitvars, updvars, lenvars >>

RowNext == ParseWriteRows

RowSpec == RowInit /\ [][RowNext]_vars

\* the PostgreSQL decoder on a session with keepalives
KaInit ==
    /\ PublisherInit({1}, LoadAll(ConfigOrder, << >>))
    /\ dialect = "pg"
    /\ save_count \in SaveCounts
    /\ dpc = "boot"
    /\ run = 0
    /\ feed = << >>
    /\ DecoderStatics
    /\ checkpoint = NoCkpt
    /\ slot_lsn = 0
    /\ next_uuid = 0
    /\ emitted = << >>
    /\ writes = << >>
    /\ restored = NoCkpt
    /\ start_req = NoCkpt
    /\ slot_seen = -1
    /\ parsed_upto = NoCkpt
    /\ ProjOff
    /\ LoadDone
    /\ HelpOff
    /\ TailOff
    /\ MapOff
    /\ RelOff
    /\ ka_plan \in KaPlans
    /\ ka_log = << >>

\* the PostgreSQL decoder streaming a session with relation changes, from
\* LSN 0 of a new slot
RelInit ==
    /\ PublisherInit({1}, LoadAll(ConfigOrder, << >>))
    /\ dialect = "pg"
    /\ save_count \in SaveCounts
    /\ dpc = "streaming"
    /\ run = 0
    /\ rel_feed \in RelFeeds
    /\ feed = rel_feed
    /\ DecoderStatics
    /\ checkpoint = NoCkpt
    /\ slot_lsn = 0
    /\ next_uuid = 0
    /\ emitted = << >>
    /\ writes = << >>
    /\ restored = NoCkpt
    /\ start_req = << 0, 0 >>
    /\ slot_seen = -1
    /\ parsed_upto = << 0, 0 >>
    /\ ProjOff
    /\ LoadDone
    /\ HelpOff
    /\ TailOff
    /\ KaOff
    /\ MapOff

RelNext ==
    \/ PgHandleMessage
    \/ PgStatusUpdate
    \/ PgShutdown

RelSpec == RelInit /\ [][RelNext]_vars

KaNext ==
    \/ PgStart
    \/ PgHandleMessage
    \/ PgHandleKeepalive
    \/ PgStatusUpdate
    \/ PgShutdown

KaSpec == KaInit /\ [][KaNext]_vars

(* ---- column projection of the MySQL decoder ----------------------------- *)
\* fetch_column_names' cache test on (db, tbl) against the table map
CacheHit(fetched, map_tbl, tbl) == fetched /\ map_tbl = tbl

\* g_map.column_names after fetch_column_names(g_map.db, g_map.tbl): the
\* caller has stored the new table in g_map before the call, so the cache
\* test compares g_map.tbl with itself; query_ok is the outcome of the
\* SELECT on the metadata connection
fetch_column_names(fetched, names, conn, query_ok, t) ==
    IF CacheHit(fetched, t, t) THEN names
    ELSE IF conn /\ query_ok THEN TableCols[t]
    ELSE << >>

\* tbl_cfg->columns[i].index of a listed column: the first physical column
\* of that name, or -1
ResolveIndex(name, names, ncols) ==
    LET hits == {j \in 1..ncols : j <= Len(names) /\ names[j] = name}
    IN IF hits = {} THEN -1
       ELSE (CHOOSE j \in hits : \A k \in hits : j <= k) - 1

\* the keys of one rendered row, physical columns i..ncols-1
RECURSIVE RowKeysFrom(_, _, _, _, _, _, _)
RowKeysFrom(i, ncols, present, all, cfgnames, cfgindex, names) ==
    IF i >= ncols THEN << >>
    ELSE LET rest == RowKeysFrom(i + 1, ncols, present, all, cfgnames,
                                 cfgindex, names)
             js == {j \in 1..Len(cfgnames) : cfgindex[j] = i}
         IN IF (i + 1) \notin present THEN rest
            ELSE IF all
            THEN << IF names # << >> /\ i + 1 <= Len(names)
                    THEN names[i + 1] ELSE "unknown" >> \o rest
            ELSE IF js = {} THEN rest
            ELSE << cfgnames[CHOOSE j \in js : \A k \in js : j <= k] >>
                 \o rest

parse_row_to_json_filtered(t, present) ==
    RowKeysFrom(0, g_map_ncols, present, capture_all_columns[t],
                CfgColumns[t], cfg_index[t], column_names)

\* the "primary_key" member of a rows record, << >> when it is left out
append_primary_key_metadata(t) == PkConfig[t]

WriteRecord(t, present) ==
    [kind |-> "INSERT", tbl |-> t, txn |-> current_txn_id,
     pk |-> append_primary_key_metadata(t),
     keys |-> parse_row_to_json_filtered(t, present),
     present |-> present, names |-> column_names]

DeleteRecord_nopk(t, present) ==
    [kind |-> "DELETE", tbl |-> t, txn |-> current_txn_id,
     pk |-> << >>,
     keys |-> parse_row_to_json_filtered(t, present),
     present |-> present, names |-> column_names]

DeleteRecord(t, present) ==
    [kind |-> "DELETE", tbl |-> t, txn |-> current_txn_id,
     pk |-> append_primary_key_metadata(t),
     keys |-> parse_row_to_json_filtered(t, present),
     present |-> present, names |-> column_names]

\* the columns-present bitmaps a rows event can carry
PresentSets(ncols) == (SUBSET (1..ncols)) \ {{}}

\* table_changed of parse_table_map
table_changed(map_db, map_tbl, new_db, new_tbl) ==
    map_db # new_db \/ map_tbl # new_tbl

\* g_enum_cache after the TABLE_MAP of a captured table: g_map.db and
\* g_map.tbl already hold the new names when table_changed is computed
EnumAfterMap(t, ncols) ==
    IF \/ table_changed(CaptureDb, t, CaptureDb, t)
       \/ g_map_ncols # ncols
       \/ g_enum_cache = "NULL"
    THEN "empty"
    ELSE g_enum_cache

\* the literals append_column_value_to_json uses for the ENUM column of a
\* row: those in the cache, loaded on first use when the column name the
\* decoder holds exists in the mapped table; "number" without literals
EnumAfterRow(present) ==
    IF /\ EnumCol \in present
       /\ g_enum_cache = "empty"
       /\ g_metadata_conn
       /\ EnumCol <= Len(column_names)
       /\ g_map_tbl \in Tables
       /\ column_names[EnumCol] = TableCols[g_map_tbl][EnumCol]
    THEN g_map_tbl
    ELSE g_enum_cache

\* parse_table_map for table t of the captured schema
TableMapEvent(t, query_ok) ==
    IF ~(t \in Tables /\ should_capture_table(CaptureDb)
         /\ should_capture_dml(CaptureDb))
    THEN /\ g_map_table_id' = 0
         /\ g_map_db' = CaptureDb
         /\ g_map_tbl' = t
         /\ UNCHANGED << g_map_ncols, current_txn_id, next_uuid,
                         in_transaction, column_names, column_names_fetched,
                         cfg_index, g_enum_cache >>
    ELSE
       LET names1 == fetch_column_names(column_names_fetched, column_names,
                                        g_metadata_conn, query_ok, t)
           ncols == Len(TableCols[t])
       IN
       /\ g_map_table_id' = TableIdOf(t)
       /\ g_map_db' = CaptureDb
       /\ g_map_tbl' = t
       /\ g_map_ncols' = ncols
       /\ current_txn_id' = IF in_transaction = 0 THEN next_uuid + 1
                            ELSE current_txn_id
       /\ next_uuid' = IF in_transaction = 0 THEN next_uuid + 1
                       ELSE next_uuid
       /\ in_transaction' = 1
       /\ g_enum_cache' = EnumAfterMap(t, ncols)
       /\ column_names' = names1
       /\ column_names_fetched' = (names1 # << >>)
       /\ cfg_index' =
            IF names1 = << >> \/ capture_all_columns[t] THEN cfg_index
            ELSE [cfg_index EXCEPT ![t] =
                    [j \in 1..Len(CfgColumns[t]) |->
                       ResolveIndex(CfgColumns[t][j], names1, ncols)]]

\* parse_table_map of a captured table
ProjTableMap ==
    /\ dialect = "proj"
    /\ \E t \in Tables, query_ok \in BOOLEAN : TableMapEvent(t, query_ok)
    /\ UNCHANGED << g_metadata_conn, capture_all_columns, ins_rec, del_rec >>
    /\ UNCHANGED << pubvars, streamrest, loadvars, auxvars >>

\* parse_write_rows of a one-row event on the mapped table
ProjWriteRows ==
    /\ dialect = "proj"
    /\ g_map_table_id # 0
    /\ \E present \in PresentSets(g_map_ncols) :
       /\ ins_rec' = [ins_rec EXCEPT ![g_map_tbl] =
                        WriteRecord(g_map_tbl, present)]
       /\ del_rec' = [del_rec EXCEPT ![g_map_tbl] = NoRec]
       /\ g_enum_cache' = EnumAfterRow(present)
    /\ UNCHANGED << g_metadata_conn, capture_all_columns, cfg_index,
                    g_map_tbl, g_map_ncols, column_names,
                    column_names_fetched >>
    /\ UNCHANGED << g_map_table_id, g_map_db, current_txn_id,
                    in_transaction, next_uuid >>
    /\ UNCHANGED << pubvars, streamrest, loadvars, auxvars >>

\* parse_delete_rows of a one-row event on the mapped table
ProjDeleteRows ==
    /\ dialect = "proj"
    /\ g_map_table_id # 0
    /\ \E present \in PresentSets(g_map_ncols) :
       /\ del_rec' = [del_rec EXCEPT ![g_map_tbl] =
                        DeleteRecord(g_map_tbl, present)]
       /\ g_enum_cache' = EnumAfterRow(present)
    /\ UNCHANGED << g_metadata_conn, capture_all_columns, cfg_index,
                    g_map_tbl, g_map_ncols, column_names,
                    column_names_fetched, ins_rec >>
    /\ UNCHANGED << g_map_table_id, g_map_db, current_txn_id,
                    in_transaction, next_uuid >>
    /\ UNCHANGED << pubvars, streamrest, loadvars, auxvars >>

\* the decoder is connected and the configuration is loaded; the tables of
\* the configuration list their columns or use the wildcard
ProjInit ==
    /\ PublisherInit({1}, LoadAll(ConfigOrder, << >>))
    /\ dialect = "proj"
    /\ save_count = 0
    /\ dpc = "off"
    /\ run = 0
    /\ feed = << >>
    /\ DecoderStatics
    /\ checkpoint = NoCkpt
    /\ slot_lsn = 0
    /\ next_uuid = 0
    /\ emitted = << >>
    /\ writes = << >>
    /\ restored = NoCkpt
    /\ start_req = NoCkpt
    /\ slot_seen = -1
    /\ parsed_upto = NoCkpt
    /\ g_metadata_conn \in BOOLEAN
    /\ capture_all_columns \in [Tables -> BOOLEAN]
    /\ cfg_index = [t \in Tables |-> [j \in 1..Len(CfgColumns[t]) |-> -1]]
    /\ g_map_tbl = ""
    /\ g_map_ncols = 0
    /\ column_names = << >>
    /\ column_names_fetched = FALSE
    /\ ins_rec = [t \in Tables |-> NoRec]
    /\ del_rec = [t \in Tables |-> NoRec]
    /\ g_enum_cache = "NULL"
    /\ LoadDone
    /\ AuxOff

ProjNext ==
    \/ ProjTableMap
    \/ ProjWriteRows
    \/ ProjDeleteRows

ProjSpec == ProjInit /\ [][ProjNext]_vars


(* ---- table maps and rows events of multi-table statements ------------- *)
\* a TABLE_MAP event: the server announces every table of a statement
\* before the first rows event of the statement
MapTableMap ==
    /\ dialect = "map"
    /\ srv_phase = "maps"
    /\ \E t \in AllTables \ srv_maps, query_ok \in BOOLEAN :
       /\ TableMapEvent(t, query_ok)
       /\ srv_maps' = srv_maps \cup {t}
    /\ rotated' = FALSE
    /\ UNCHANGED << g_metadata_conn, capture_all_columns, ins_rec, del_rec,
                    srv_phase, last_row >>
    /\ UNCHANGED << pubvars, streamrest, loadvars, helpvars, kavars, relvars, tailvars >>

\* the record parse_write_rows / parse_delete_rows publish for a one-row
\* event of table ev: the event's table id is read and dropped, the row is
\* decoded with whatever g_map holds
RowsRecord(kind, ev, present) ==
    [kind |-> kind, ev_tbl |-> ev, ev_tid |-> EventTid(ev),
     ev_ncols |-> EventCols(ev), tbl |-> g_map_tbl, tid |-> g_map_table_id,
     ncols |-> g_map_ncols, txn |-> current_txn_id,
     pk |-> append_primary_key_metadata(g_map_tbl),
     keys |-> RowKeysFrom(0, EventCols(ev), present,
                          capture_all_columns[g_map_tbl],
                          CfgColumns[g_map_tbl], cfg_index[g_map_tbl],
                          column_names),
     names |-> column_names,
     enum_from |-> IF EnumCol \in present THEN EnumAfterRow(present)
                   ELSE "absent",
     after_rotate |-> rotated]

\* parse_rows_event for a WRITE_ROWS or DELETE_ROWS event of a table the
\* server has announced
MapRowsEvent ==
    /\ dialect = "map"
    /\ \E ev \in srv_maps, kind \in {"INSERT", "DELETE"} :
       \E present \in PresentSets(EventCols(ev)) :
       IF g_map_table_id = 0
       THEN UNCHANGED << last_row, g_enum_cache >>
       ELSE /\ last_row' = RowsRecord(kind, ev, present)
            /\ g_enum_cache' = EnumAfterRow(present)
    /\ srv_phase' = "rows"
    /\ UNCHANGED << g_metadata_conn, capture_all_columns, cfg_index,
                    g_map_tbl, g_map_ncols, column_names,
                    column_names_fetched, ins_rec, del_rec >>
    /\ UNCHANGED << g_map_table_id, g_map_db, current_txn_id,
                    in_transaction, next_uuid, srv_maps, rotated >>
    /\ UNCHANGED << pubvars, streamrest, loadvars, helpvars, kavars, relvars, tailvars >>

\* the XID case of parse_event: the statement's transaction ends
MapXid ==
    /\ dialect = "map"
    /\ srv_phase = "rows"
    /\ next_uuid < MaxStmts
    /\ emitted' =
         IF /\ in_transaction = 1
            /\ current_txn_id # NoTxn
            /\ should_capture_ddl(g_map_db)
         THEN Append(emitted,
                     [kind |-> "COMMIT",
                      pos |-> << current_binlog, current_position >>,
                      txn |-> current_txn_id, stxn |-> 0, ev |-> 0,
                      run |-> run, sinks |-> OfferedSinks(g_map_db),
                      tend |-> << current_binlog, current_position >>])
         ELSE emitted
    /\ in_transaction' = 0
    /\ current_txn_id' = NoTxn
    /\ srv_maps' = {}
    /\ srv_phase' = "maps"
    /\ UNCHANGED << dialect, save_count, dpc, run, feed, current_binlog,
                    current_position, current_lsn, events_since_save,
                    relations, checkpoint, slot_lsn, writes, restored,
                    start_req, slot_seen, parsed_upto, g_map_table_id,
                    g_map_db, next_uuid >>
    /\ UNCHANGED << projvars, rotated, last_row >>
    /\ UNCHANGED << pubvars, loadvars, helpvars, kavars, relvars, tailvars >>

\* parse_rotate: the file name and position change and are saved; g_map is
\* not touched
MapRotate ==
    /\ dialect = "map"
    /\ current_binlog < Len(BinlogFiles)
    /\ current_binlog' = current_binlog + 1
    /\ current_position' = FirstPos
    /\ checkpoint' = << current_binlog + 1, FirstPos >>
    /\ writes' = Append(writes,
                        WriteEntry(<< current_binlog + 1, FirstPos >>,
                                   Len(emitted), parsed_upto))
    /\ events_since_save' = 0
    /\ rotated' = TRUE
    /\ UNCHANGED << dialect, save_count, dpc, run, feed, current_lsn,
                    relations, slot_lsn, emitted, restored, start_req,
                    slot_seen, parsed_upto, g_map_table_id, g_map_db,
                    current_txn_id, in_transaction, next_uuid >>
    /\ UNCHANGED << projvars, srv_maps, srv_phase, last_row >>
    /\ UNCHANGED << pubvars, loadvars, helpvars, kavars, relvars, tailvars >>

\* the decoder is connected and the configuration is loaded, every captured
\* table with its column list
MapInit ==
    /\ PublisherInit({1}, LoadAll(ConfigOrder, << >>))
    /\ dialect = "map"
    /\ save_count = 0
    /\ dpc = "off"
    /\ run = 0
    /\ feed = << >>
    /\ DecoderStatics
    /\ checkpoint = NoCkpt
    /\ slot_lsn = 0
    /\ next_uuid = 0
    /\ emitted = << >>
    /\ writes = << >>
    /\ restored = NoCkpt
    /\ start_req = NoCkpt
    /\ slot_seen = -1
    /\ parsed_upto = NoCkpt
    /\ g_metadata_conn \in BOOLEAN
    /\ capture_all_columns = [t \in Tables |-> FALSE]
    /\ cfg_index = [t \in Tables |-> [j \in 1..Len(CfgColumns[t]) |-> -1]]
    /\ g_map_tbl = ""
    /\ g_map_ncols = 0
    /\ column_names = << >>
    /\ column_names_fetched = FALSE
    /\ ins_rec = [t \in Tables |-> NoRec]
    /\ del_rec = [t \in Tables |-> NoRec]
    /\ g_enum_cache = "NULL"
    /\ LoadDone
    /\ HelpOff
    /\ TailOff
    /\ KaOff
    /\ MapOff
    /\ RelOff

MapNext ==
    \/ MapTableMap
    \/ MapRowsEvent
    \/ MapXid
    \/ MapRotate

MapSpec == MapInit /\ [][MapNext]_vars

(* ---- loading the configured plugins ------------------------------------ *)
\* what publisher_manager_load_plugin logs last: the first check that fails,
\* in the order of the code
LoadOutcome(act, fail, api) ==
    IF ~act THEN "skipped"
    ELSE IF fail = "dlopen" THEN "dlopen"
    ELSE IF fail = "callbacks" THEN "callbacks"
    ELSE IF api # NoApi /\ api # PUBLISHER_API_VERSION THEN "version"
    ELSE IF fail = "init_callback" THEN "init_callback"
    ELSE "loaded"

\* the plugin callbacks one call makes: init once the checks passed, and
\* cleanup from publisher_instance_destroy on an error path that has the
\* plugin's callbacks
LoadCalls(log) ==
    IF log = "loaded" THEN << "init" >>
    ELSE IF log = "init_callback" THEN << "init", "cleanup" >>
    ELSE IF log = "version" THEN << "cleanup" >>
    ELSE << >>

\* load_config calls publisher_manager_load_plugin for the next entry of the
\* publishers array and goes on whatever it returns
LoadPlugin ==
    /\ dialect = "load"
    /\ load_idx <= Len(ConfigOrder)
    /\ \E fail \in LoadFailures :
       LET s == ConfigOrder[load_idx]
           log == LoadOutcome(active[s], fail, plugin_api[s])
       IN
       /\ instances' = IF log = "loaded" THEN << s >> \o instances
                       ELSE instances
       /\ instance_count' = IF log = "loaded" THEN instance_count + 1
                            ELSE instance_count
       /\ calls' = [calls EXCEPT ![s] = @ \o LoadCalls(log)]
       /\ load_ret' = Append(load_ret, LoadRet(log))
       /\ load_log' = Append(load_log, log)
       /\ load_idx' = load_idx + 1
    /\ UNCHANGED << plugin_api, loadrest, streamvars, projvars, auxvars >>

\* publisher_manager_create has run; the plugin files and the "active" flags
\* of the configuration are what they are
LoadInit ==
    /\ PublisherInit(1..MaxCap, << >>)
    /\ dialect = "load"
    /\ save_count = 0
    /\ dpc = "off"
    /\ run = 0
    /\ feed = << >>
    /\ DecoderStatics
    /\ checkpoint = NoCkpt
    /\ slot_lsn = 0
    /\ next_uuid = 0
    /\ emitted = << >>
    /\ writes = << >>
    /\ restored = NoCkpt
    /\ start_req = NoCkpt
    /\ slot_seen = -1
    /\ parsed_upto = NoCkpt
    /\ ProjOff
    /\ load_idx = 1
    /\ instance_count = 0
    /\ plugin_api \in [Sinks -> ApiVersions \cup {NoApi}]
    /\ load_ret = << >>
    /\ load_log = << >>
    /\ AuxOff

LoadNext == LoadPlugin

LoadSpec == LoadInit /\ [][LoadNext]_vars

(* ---- configuration accessors ------------------------------------------ *)
\* tolower, on the letters in use
ToLower(c) ==
    CASE c = "T" -> "t" [] c = "R" -> "r" [] c = "U" -> "u" [] c = "E" -> "e"
      [] c = "Y" -> "y" [] c = "S" -> "s" [] c = "O" -> "o" [] c = "N" -> "n"
      [] c = "F" -> "f" [] c = "A" -> "a" [] c = "L" -> "l"
      [] OTHER -> c

\* strcmp(a, b) == 0
StrEq(a, b) == a = b

StrCaseEq_exact(a, b) == a = b

\* strcasecmp(a, b) == 0
StrCaseEq(a, b) ==
    /\ Len(a) = Len(b)
    /\ \A i \in 1..Len(a) : ToLower(a[i]) = ToLower(b[i])

\* the loop over the leading ' ', '\t', '\n', '\r' of the value
RECURSIVE SkipLeading(_)
SkipLeading(s) ==
    IF s # << >> /\ Head(s) \in SkippedChars THEN SkipLeading(Tail(s))
    ELSE s

\* the value of the first entry with the key, NULL without one
plugin_get_config(keys, values, key) ==
    LET hits == {i \in 1..Len(keys) : StrEq(keys[i], key)}
    IN IF hits = {} THEN NullVal
       ELSE values[CHOOSE i \in hits : \A j \in hits : i <= j]

plugin_get_config_bool(keys, values, key, default_val) ==
    LET val == plugin_get_config(keys, values, key)
        v == SkipLeading(val.s)
    IN IF val.null THEN default_val
       ELSE IF v = << >> THEN default_val
       ELSE IF StrEq(v, << "1" >>) THEN 1
       ELSE IF StrEq(v, << "0" >>) THEN 0
       ELSE IF StrCaseEq(v, << "t", "r", "u", "e" >>) THEN 1
       ELSE IF StrCaseEq(v, << "y", "e", "s" >>) THEN 1
       ELSE IF StrCaseEq(v, << "o", "n" >>) THEN 1
       ELSE IF StrCaseEq(v, << "f", "a", "l", "s", "e" >>) THEN 0
       ELSE IF StrCaseEq(v, << "n", "o" >>) THEN 0
       ELSE IF StrCaseEq(v, << "o", "f", "f" >>) THEN 0
       ELSE default_val

\* a plugin calls get_config_bool for BoolKey
GetConfigBool ==
    /\ dialect = "help"
    /\ gb_ret = NoRet
    /\ gb_ret' = plugin_get_config_bool(config_keys, config_values, BoolKey,
                                        gb_default)
    /\ UNCHANGED << config_keys, config_values, gb_default, gb_lead, gb_core,
                    gb_trail >>
    /\ UNCHANGED << pubvars, streamvars, projvars, loadvars, kavars,
                    mapvars, relvars, tailvars >>

\* a loaded plugin with a configuration of at most two entries; the value of
\* BoolKey, when there is one, is whitespace, a word, whitespace
HelpInit ==
    /\ PublisherInit({1}, LoadAll(ConfigOrder, << >>))
    /\ dialect = "help"
    /\ save_count = 0
    /\ dpc = "off"
    /\ run = 0
    /\ feed = << >>
    /\ DecoderStatics
    /\ checkpoint = NoCkpt
    /\ slot_lsn = 0
    /\ next_uuid = 0
    /\ emitted = << >>
    /\ writes = << >>
    /\ restored = NoCkpt
    /\ start_req = NoCkpt
    /\ slot_seen = -1
    /\ parsed_upto = NoCkpt
    /\ ProjOff
    /\ LoadDone
    /\ TailOff
    /\ KaOff
    /\ MapOff
    /\ RelOff
    /\ gb_default \in {0, 1}
    /\ gb_ret = NoRet
    /\ \E has \in {"missing", "null", "string"} :
       /\ gb_lead \in IF has = "string" THEN Pads(MaxPad) ELSE {<< >>}
       /\ gb_core \in IF has = "string" THEN BoolWords ELSE {<< >>}
       /\ gb_trail \in IF has = "string" THEN Pads(MaxPad) ELSE {<< >>}
       /\ config_keys \in IF has = "missing" THEN {<< >>, << OtherKey >>}
                          ELSE {<< BoolKey >>, << OtherKey, BoolKey >>}
       /\ config_values =
            [i \in 1..Len(config_keys) |->
               IF config_keys[i] = OtherKey THEN StrVal(<< "1" >>)
               ELSE IF has = "null" THEN NullVal
               ELSE StrVal(gb_lead \o gb_core \o gb_trail)]

HelpNext == GetConfigBool

HelpSpec == HelpInit /\ [][HelpNext]_vars

(* ---- properties --------------------------------------------------------- *)IsPrefix(a, b) == Len(a) <= Len(b) /\ SubSeq(b, 1, Len(a)) = a

\* the records in the ring of sink s, oldest first
QueueContents(s) ==
    [i \in 1..q_count[s] |-> queue[s][(q_head[s] + (i - 1)) % q_capacity[s]]]

\* number of ring slots, over all sinks, that point to record o
Refs(o) ==
    Cardinality({p \in Sinks \X (0..(MaxCap - 1)) :
                    p[2] \in DOMAIN queue[p[1]] /\ queue[p[1]][p[2]] = o})

\* number of thread-local pointers (event_copy, the workers' event) to o
LocalRefs(o) ==
    (IF event_copy = o THEN 1 ELSE 0)
    + Cardinality({s \in Sinks : wevent[s] = o})

\* the main thread is inside publisher_instance_enqueue for sink s
InEnqueue(s) == pc = "enq_lock" /\ Cur = s

\* this step is the return of a publisher_instance_enqueue call on sink s
EnqueueReturns(s) ==
    /\ pc \in {"dispatch", "enq_lock"}
    /\ Cur = s
    /\ pc' # "enq_lock"
    /\ \/ pc = "enq_lock"
       \/ attempts'[s] = attempts[s] + 1

\* C1: for every sink the records passed to publish are, in order and
\* without repetition, the records whose enqueue succeeded: the publish
\* history is a prefix of the enqueue history.
C1_FifoDelivery ==
    \A s \in Sinks : IsPrefix(pubLog[s], enqLog[s])

C1_Witness ==
    \E s \in Sinks :
        /\ Len(pubLog[s]) >= 2
        /\ q_count[s] >= 1

\* C2: an enqueue call on an active sink whose ring holds q_capacity records
\* returns -1 in the step that tests the ring (it does not wait), adds
\* exactly 1 to events_dropped and changes neither the slots nor q_head,
\* q_tail, q_count.
C2_DropWhenFull ==
    [][\A s \in Sinks :
          (EnqueueReturns(s) /\ active[s] /\ q_count[s] = q_capacity[s])
          => /\ enq_ret' = -1
             /\ events_dropped'[s] = events_dropped[s] + 1
             /\ queue'[s] = queue[s]
             /\ q_head'[s] = q_head[s]
             /\ q_tail'[s] = q_tail[s]
             /\ q_count'[s] = q_count[s]]_vars

C2_Witness ==
    \E s \in Sinks :
        /\ copy_failures = 0
        /\ events_dropped[s] >= 1
        /\ enq_ret = -1
        /\ q_count[s] = q_capacity[s]

\* C3: while a publish call runs its worker does not hold q_mutex; a started
\* enqueue call always completes, also when no publish call ever returns;
\* and whether it enqueues or drops depends only on the sink's own ring,
\* and it changes no other sink's ring or counters.
C3_MutexFreeInPublish ==
    \A s \in Sinks : wpc[s] = "in_publish" => q_mutex[s] # "worker"

C3_OwnSinkOnly(s) ==
    EnqueueReturns(s) /\ pc = "enq_lock"
    => /\ (enq_ret' = -1) <=> (q_count[s] >= q_capacity[s])
       /\ (enq_ret' = 0) <=> (q_count[s] < q_capacity[s])
       /\ \A o \in Sinks \ {s} :
            /\ queue'[o] = queue[o]
            /\ q_count'[o] = q_count[o]
            /\ q_head'[o] = q_head[o]
            /\ q_tail'[o] = q_tail[o]
            /\ events_dropped'[o] = events_dropped[o]

\* C3 (all three parts): mutex free during publish, every enqueue call
\* completes without any publish call returning, result and effect of an
\* enqueue confined to its own sink.
C3_SinkIsolation ==
    /\ []C3_MutexFreeInPublish
    /\ (\E s \in Sinks : InEnqueue(s)) ~> (\A s \in Sinks : ~InEnqueue(s))
    /\ [][\A s \in Sinks : C3_OwnSinkOnly(s)]_vars

C3_Witness ==
    \E s \in Sinks :
        /\ wpc[s] = "in_publish"
        /\ Len(pubLog[s]) = 1
        /\ q_count[s] = q_capacity[s]
        /\ Len(enqLog[s]) = q_capacity[s] + 1

\* C4: for every sink events_published + events_dropped + errors never
\* exceeds the number of enqueue calls made on it, and no record copy is
\* counted more than once in events_published and errors together.
C4_CounterBound ==
    /\ \A s \in Sinks :
         events_published[s] + events_dropped[s] + errors[s] <= attempts[s]
    /\ \A o \in ObjIds : counted[o] <= 1

C4_Witness ==
    \E s \in Sinks :
        /\ events_published[s] >= 1
        /\ errors[s] >= 1
        /\ events_dropped[s] >= 1

\* the sink's worker thread was created (publisher_instance_start succeeded)
WasStarted(s) == wpc[s] # "none"

\* publisher_instance_stop has returned for sink s
StopReturned(s) == "stop" \in Range(calls[s])

\* C5: a live record copy is referenced by exactly one pointer - one ring
\* slot, or the local variable of the thread that holds it - and a freed or
\* unallocated one by none; no copy is freed twice; the copy a running
\* publish call works on is live; and when teardown is complete every copy
\* that was made has been freed.
C5_RecordOwnership ==
    /\ \A o \in ObjIds :
         /\ heap[o] # "double_freed"
         /\ heap[o] = "live" => Refs(o) + LocalRefs(o) = 1
         /\ heap[o] # "live" => Refs(o) + LocalRefs(o) = 0
    /\ \A s \in Sinks :
         wpc[s] = "in_publish" => wevent[s] # NULL /\ heap[wevent[s]] = "live"
    /\ pc = "done" => \A o \in ObjIds : heap[o] \in {"unalloc", "freed"}

C5_Witness ==
    /\ pc = "done"
    /\ \E s \in Sinks : WasStarted(s) /\ Len(pubLog[s]) >= 1
    /\ \E s \in Sinks : ~WasStarted(s) /\ Len(enqLog[s]) >= 1

\* C6: once publisher_instance_stop has joined the worker of a started sink,
\* the ring is empty and every record whose enqueue succeeded has been
\* passed to publish exactly once, in particular those that were still
\* queued when the stop flag was set.
C6_StopDrains ==
    \A s \in Sinks :
        (StopReturned(s) \/ (pc = "stop_cb" /\ Cur = s))
        => /\ q_count[s] = 0
           /\ pubLog[s] = enqLog[s]
           /\ \A o \in Range(enqLog[s]) : heap[o] = "freed"

C6_Witness ==
    \E s \in Sinks : StopReturned(s) /\ q_at_stop[s] > 0

\* C7: when the stop callback of a started sink has been invoked, the stop
\* flag is set and the worker has exited (so no publish call runs or starts
\* afterwards), and the callbacks made on a started sink up to its cleanup
\* are init, start, stop, cleanup in this order.
C7_StopOrder ==
    \A s \in Sinks :
        /\ StopReturned(s) =>
             /\ q_stop[s]
             /\ wpc[s] = "exited"
             /\ ~thread_started[s]
        /\ (pc = "stop_cb" /\ Cur = s) => q_stop[s] /\ wpc[s] = "exited"
        /\ (WasStarted(s) /\ "cleanup" \in Range(calls[s]))
             => calls[s] = << "init", "start", "stop", "cleanup" >>

C7_Witness ==
    \E s \in Sinks :
        /\ calls[s] = << "init", "start", "stop", "cleanup" >>
        /\ Len(pubLog[s]) >= 1
        /\ q_at_stop[s] > 0

\* the overflow scenario on sink s: started, ring of capacity 2, no publish
\* call has returned, every copy was allocated, three enqueue calls made and
\* the third has returned
Overflow(s) ==
    /\ WasStarted(s)
    /\ q_capacity[s] = 2
    /\ events_published[s] = 0 /\ errors[s] = 0
    /\ copy_failures = 0
    /\ attempts[s] = 3
    /\ ~InEnqueue(s)
    /\ queue[s] # << >>

\* C8 as claimed: in the overflow scenario the first two records sit in the
\* ring, the third was dropped and events_dropped = 1.
C8_Original ==
    \A s \in Sinks :
        Overflow(s)
        => /\ QueueContents(s) = << ObjOf(1, s), ObjOf(2, s) >>
           /\ heap[ObjOf(3, s)] = "freed"
           /\ events_dropped[s] = 1

\* C8 amended: in the overflow scenario the first two records are always
\* accepted; the third is dropped (events_dropped = 1) exactly when the
\* worker had not yet taken the first record out of the ring when the third
\* call tested it - the first record then still sits in the ring or has
\* since been taken into the hanging publish call; otherwise the first
\* record is in the hanging publish call, the second and third sit in the
\* ring and events_dropped = 0.
C8_Amended ==
    \A s \in Sinks :
        Overflow(s)
        => LET o1 == ObjOf(1, s)
               o2 == ObjOf(2, s)
               o3 == ObjOf(3, s)
               held == wpc[s] = "in_publish" /\ wevent[s] = o1
           IN \/ /\ events_dropped[s] = 1
                 /\ heap[o3] = "freed"
                 /\ enqLog[s] = << o1, o2 >>
                 /\ \/ QueueContents(s) = << o1, o2 >> /\ pubLog[s] = << >>
                    \/ QueueContents(s) = << o2 >> /\ held
              \/ /\ events_dropped[s] = 0
                 /\ enqLog[s] = << o1, o2, o3 >>
                 /\ QueueContents(s) = << o2, o3 >>
                 /\ held

C8_Witness ==
    \E s \in Sinks :
        /\ Overflow(s)
        /\ events_dropped[s] = 0
        /\ QueueContents(s) = << ObjOf(2, s), ObjOf(3, s) >>

\* C9 as claimed: when the publish calls of sink 1 always return, then, once
\* the shutdown has begun, sink 1 - if started - is eventually stopped and
\* drained, whatever the publish calls of the other sink do.
C9_OtherSinkStopped ==
    (pc = "stop_loop" /\ started[1])
        ~> (~started[1] /\ q_count[1] = 0 /\ pubLog[1] = enqLog[1])

\* the schema filter test as the configuration states it
Eligible(s, db) ==
    active[s] /\ (databases[s] = << >> \/ db \in Range(databases[s]))

\* C10: publish_event calls publisher_instance_enqueue for a sink exactly
\* when the sink is active and its filter is empty or names the event's
\* schema; for any other sink no call is made and its counters, its ring
\* and the record heap stay as they are.
C10_SchemaRouting ==
    [][\A s \in Sinks :
          (pc = "dispatch" /\ Cur = s /\ (pc' # pc \/ idx' # idx))
          => /\ (attempts'[s] = attempts[s] + 1) <=> Eligible(s, cur_db)
             /\ (attempts'[s] = attempts[s]) <=> ~Eligible(s, cur_db)
             /\ ~Eligible(s, cur_db)
                  => /\ events_published'[s] = events_published[s]
                     /\ events_dropped'[s] = events_dropped[s]
                     /\ errors'[s] = errors[s]
                     /\ queue'[s] = queue[s]
                     /\ q_count'[s] = q_count[s]
                     /\ heap' = heap
                     /\ pc' # "enq_lock"]_vars

C10_Witness ==
    /\ attempts[2] >= 1
    /\ attempts[1] > attempts[2]
    /\ pc = "stream"

\* the position of sink s in the order in which the sinks were loaded
RegIndex(s) == CHOOSE i \in 1..Len(ConfigOrder) : ConfigOrder[i] = s

\* C11 as stated: when publish_event offers an event to a sink, every
\* eligible sink loaded before it has already been offered that event.
C11_Original ==
    [][\A s \in Sinks :
          (pc = "dispatch" /\ attempts'[s] = attempts[s] + 1)
          => \A t \in Sinks :
                (Eligible(t, cur_db) /\ RegIndex(t) < RegIndex(s))
                => t \in Range(offered)]_vars

\* C11 (amended): for every event, publish_event offers the event to the
\* eligible sinks in the reverse of the order in which they were loaded
\* (the sink loaded last comes first), the same for every event: when a
\* sink is offered the event, the eligible sinks already offered it are
\* exactly those loaded after it.
C11_Amended ==
    [][\A s \in Sinks :
          (pc = "dispatch" /\ attempts'[s] = attempts[s] + 1)
          => \A t \in Sinks \ {s} :
                Eligible(t, cur_db)
                => (t \in Range(offered) <=> RegIndex(t) > RegIndex(s))]_vars

C11_Witness ==
    /\ pc = "enq_lock"
    /\ Len(offered) = Cardinality(Sinks)
    /\ nevents > 1

(* ---- properties of the stream decoders -------------------------------- *)
\* C12: in both dialects, after the decoder has handled any sequence of
\* stream events, the current transaction id is the empty string if and
\* only if no transaction is open (in_transaction == 0).
C12_TxnIdIffOpen ==
    (current_txn_id = NoTxn) <=> (in_transaction = 0)

\* C13: every record passed to publish_event carries a non-empty txn; two
\* records emitted by one run of the decoder carry the same txn exactly
\* when they belong to the same server transaction (BEGIN .. COMMIT /
\* ROLLBACK / XID, or one statement outside a transaction).
C13_TxnIds ==
    \A i, j \in 1..Len(emitted) :
        /\ emitted[i].txn # NoTxn
        /\ emitted[i].run = emitted[j].run
             => ((emitted[i].stxn = emitted[j].stxn)
                   <=> (emitted[i].txn = emitted[j].txn))

C13_Witness ==
    \E i, j, k \in 1..Len(emitted) :
        /\ i < j /\ j < k
        /\ emitted[i].run = emitted[k].run
        /\ emitted[j].run = emitted[k].run
        /\ emitted[i].stxn = emitted[j].stxn
        /\ emitted[j].stxn # emitted[k].stxn

\* C14: within one run the positions written to the checkpoint file (by the
\* per-event policy, by ROTATE, by COMMIT and by the final write of main)
\* never decrease, in (file, offset) order resp. LSN order.
C14_CheckpointMonotonic ==
    \A i, j \in 1..Len(writes) :
        (i < j /\ writes[i].run = writes[j].run)
        => PosLeq(writes[i].pos, writes[j].pos)

\* C15 as stated: when a run writes a checkpoint P, every record of that
\* run with position at most P has already been handed to every eligible
\* sink, and P is not ahead of what the run has parsed.
C15_Original ==
    \A k \in 1..Len(writes) :
        /\ PosLeq(writes[k].pos, writes[k].upto)
        /\ \A i \in 1..Len(emitted) :
              (emitted[i].run = writes[k].run
                 /\ PosLeq(emitted[i].pos, writes[k].pos))
              => /\ i <= writes[k].nrec
                 /\ \A s \in Sinks :
                       Eligible(s, CaptureDb) => s \in Range(emitted[i].sinks)

\* C15 (amended): when a run writes a checkpoint P, every record of that
\* run that belongs to a transaction ending at or before P (MySQL: every
\* record with position at most P) has already been offered to the queue
\* of every eligible sink, and P is not ahead of the end of the last
\* message the run has handled.  On the PostgreSQL path a record with an
\* LSN below P may still follow: a change of a transaction that commits
\* later.
C15_Amended ==
    \A k \in 1..Len(writes) :
        /\ PosLeq(writes[k].pos, writes[k].upto)
        /\ \A i \in 1..Len(emitted) :
              (emitted[i].run = writes[k].run
                 /\ PosLeq(emitted[i].tend, writes[k].pos))
              => /\ i <= writes[k].nrec
                 /\ \A s \in Sinks :
                       Eligible(s, CaptureDb) => s \in Range(emitted[i].sinks)

C15_Witness ==
    \E k \in 1..Len(writes) :
        /\ writes[k].nrec > 0
        /\ emitted[writes[k].nrec].run = writes[k].run
        /\ emitted[writes[k].nrec].pos = writes[k].pos
        /\ Len(emitted[writes[k].nrec].sinks) = Cardinality(Sinks)

\* C16 as stated: after a restart no record with a position below the
\* checkpoint the process found is handed to a sink, and on the PostgreSQL
\* path the start LSN requested is at most the slot's confirmed_flush_lsn
\* when that was read.
C16_Original ==
    /\ \A i \in 1..Len(emitted) :
          (run > 0 /\ emitted[i].run = run /\ restored # NoCkpt)
          => PosLeq(restored, emitted[i].pos)
    /\ (dialect = "pg" /\ slot_seen >= 0) => start_req[2] <= slot_seen

\* C16 (amended): after a restart the MySQL decoder hands no record with a
\* position below the checkpoint it found; the PostgreSQL decoder requests
\* the smaller of the checkpoint and the slot's confirmed_flush_lsn when
\* that can be read, and the checkpoint otherwise, so records with an LSN
\* below the checkpoint may be handed to the sinks again.
C16_Amended ==
    /\ dialect = "mysql"
         => \A i \in 1..Len(emitted) :
               (run > 0 /\ emitted[i].run = run /\ restored # NoCkpt)
               => PosLeq(restored, emitted[i].pos)
    /\ (dialect = "pg" /\ dpc # "boot" /\ restored # NoCkpt)
         => start_req[2] = IF slot_seen >= 0 /\ slot_seen < restored[2]
                           THEN slot_seen
                           ELSE restored[2]
    /\ (dialect = "pg" /\ slot_seen >= 0) => start_req[2] <= slot_seen

C16_Witness ==
    /\ dialect = "mysql"
    /\ run > 0
    /\ RestoreOk(restored)
    /\ \E i \in 1..Len(emitted) :
          emitted[i].run = run /\ emitted[i].kind \in RowsTypes

\* C17: when the MySQL streamer is restarted from a checkpoint it wrote and
\* has read the binlog to its end, every row change that lies behind the
\* checkpoint has been handed to the sinks by the restarted process, also
\* when the TABLE_MAP of the rows event lies before the checkpoint.
C17_ResumesWhereStopped ==
    (dialect = "mysql" /\ dpc = "streaming" /\ run > 0
       /\ RestoreOk(restored) /\ feed = << >>)
    => \A f \in 1..Len(BinlogFiles) :
         \A k \in 1..Len(BinlogFiles[f]) :
            (BinlogFiles[f][k].type \in RowsTypes
               /\ PosLeq(restored, << f, EventStart(k) >>))
            => \E i \in 1..Len(emitted) :
                  /\ emitted[i].run = run
                  /\ emitted[i].ev = BinlogFiles[f][k].ev
                  /\ emitted[i].kind \in RowsTypes

(* ---- properties of the column projection ------------------------------ *)
\* C18: every row mapping of an emitted INSERT or DELETE record has as many
\* keys as the table has configured columns, or as the table map has
\* columns under the wildcard.  Stated for the records of events that flag
\* every column present, decoded while the column names are loaded.
C18_KeyCount ==
    \A t \in Tables : \A r \in {ins_rec[t], del_rec[t]} \ {NoRec} :
        (r.names # << >> /\ r.present = 1..Len(TableCols[t]))
        => Len(r.keys) = IF capture_all_columns[t] THEN Len(TableCols[t])
                         ELSE Len(CfgColumns[t])

C20_VersionChecked ==
    /\ \A s \in Range(instances) : plugin_api[s] = PUBLISHER_API_VERSION
    /\ \A i \in 1..Len(load_log) :
          plugin_api[ConfigOrder[i]] \notin {NoApi, PUBLISHER_API_VERSION}
          => /\ load_ret[i] = -1
             /\ ConfigOrder[i] \notin Range(instances)
    /\ instance_count = Len(instances)

(* ---- properties of the configuration accessors ------------------------ *)
\* what the words 1/true/yes/on and 0/false/no/off stand for, in lower case
TruthyWords == { << "1" >>, << "t", "r", "u", "e" >>, << "y", "e", "s" >>,
                 << "o", "n" >> }
FalsyWords == { << "0" >>, << "f", "a", "l", "s", "e" >>, << "n", "o" >>,
                << "o", "f", "f" >> }
LowerWord(w) == [i \in 1..Len(w) |-> ToLower(w[i])]
\* the call found a string value for BoolKey
HasString ==
    \E i \in 1..Len(config_keys) :
        config_keys[i] = BoolKey /\ ~config_values[i].null

\* C21 as stated: get_config_bool returns 1 for 1/true/yes/on and 0 for
\* 0/false/no/off, case-insensitively, after trimming leading and trailing
\* whitespace, and the default for a missing key, an empty value or any
\* other value.
C21_Original ==
    gb_ret # NoRet
    => gb_ret = IF ~HasString THEN gb_default
                ELSE IF LowerWord(gb_core) \in TruthyWords THEN 1
                ELSE IF LowerWord(gb_core) \in FalsyWords THEN 0
                ELSE gb_default

\* C21 amended: only leading whitespace (space, tab, newline, carriage
\* return) is skipped; a value with whitespace after the word is any other
\* value and gives the default.
C21_Amended ==
    gb_ret # NoRet
    => gb_ret = IF ~HasString THEN gb_default
                ELSE IF gb_core # << >> /\ gb_trail # << >> THEN gb_default
                ELSE IF LowerWord(gb_core) \in TruthyWords THEN 1
                ELSE IF LowerWord(gb_core) \in FalsyWords THEN 0
                ELSE gb_default

C21_Witness ==
    /\ gb_ret = 1
    /\ gb_default = 0
    /\ gb_lead # << >>
    /\ gb_trail = << >>
    /\ gb_core = << "T", "R", "U", "E" >>

(* ---- properties of the PostgreSQL keepalive ---------------------------- *)
\* the reply-requested keepalives of the plan the running session has
\* already taken from the stream
KaHandled ==
    {k \in 1..Len(ka_plan) :
        /\ ka_plan[k].reply
        /\ dpc # "boot"
        /\ \A i \in 1..Len(feed) :
              ~(feed[i].type = "KEEPALIVE" /\ feed[i].id = k)}

C23_DescriptorMatches ==
    (last_row # NoRec /\ last_row.ev_tbl \in Tables /\ ~last_row.after_rotate)
    => /\ last_row.tid = last_row.ev_tid
       /\ last_row.ncols = last_row.ev_ncols

\* C24: a rows event whose table id was mapped to a table outside the
\* capture set produces no record, for every order in which TABLE_MAP
\* events of captured and non-captured tables precede it.
C24_NoRecordForUncaptured ==
    (last_row # NoRec /\ ~last_row.after_rotate)
    => last_row.ev_tbl \in Tables

\* C26: after a TABLE_MAP for a captured table that differs from the
\* descriptor cached before, the cached ENUM literals are discarded and the
\* column names are fetched again: the names the decoder holds and the
\* literals it has loaded are those of the mapped table.
C26_NamesOfMappedTable ==
    (g_map_table_id # 0 /\ column_names # << >>)
    => /\ column_names = TableCols[g_map_tbl]
       /\ g_enum_cache \in {"empty", g_map_tbl}

\* C27: a ROTATE event moves every table id to UNMAPPED: a rows event that
\* arrives after a ROTATE and before any new TABLE_MAP produces no record.
C27_RotateUnmaps ==
    last_row # NoRec => ~last_row.after_rotate

(* ---- properties of the PostgreSQL relation cache ----------------------- *)
\* the RELATION messages for the relation among the first n messages of the
\* session
RelationsBefore(n, relid) ==
    {j \in 1..n : rel_feed[j].type = "RELATION" /\ rel_feed[j].relid = relid}
\* the most recent of them names a table outside the capture set
LastNamesUncaptured(n, relid) ==
    LET js == RelationsBefore(n, relid)
    IN /\ js # {}
       /\ rel_feed[CHOOSE j \in js : \A k \in js : k <= j].name \notin Tables

\* C25: once the most recent RELATION message for a relation id names a
\* table that is not in the capture set, nothing is cached for that id and
\* later INSERT messages for the id produce no record, also when an
\* earlier RELATION message had mapped the id to a captured table.
C25_UncapturedRelation ==
    /\ LastNamesUncaptured(Len(rel_feed) - Len(feed), CaptureRelid)
       => find_relation(relations, CaptureRelid) = NoRel
    /\ \A i \in 1..Len(emitted) :
          emitted[i].kind = "INSERT"
          => ~LastNamesUncaptured(emitted[i].ev - 1, CaptureRelid)

\* C28: in the MySQL decoder the transaction is open (in_transaction = 1)
\* after a BEGIN query, after a DDL query handled while idle and after the
\* TABLE_MAP that starts the first row event received while idle; it is idle
\* (in_transaction = 0) after a COMMIT query, a ROLLBACK query or an XID
\* event; every other event leaves the transaction state as it was.
C28_TxnTransitions ==
    [][ ( /\ dialect = "mysql"
          /\ dpc = "streaming"
          /\ feed # << >>
          /\ feed' = Tail(feed)
          /\ dpc' = dpc )
        => LET e == Head(feed)
               is_query == e.type = "QUERY"
               opens == \/ is_query /\ e.query = "BEGIN"
                        \/ is_query /\ e.query \in DdlVerbs
                                    /\ in_transaction = 0
                        \/ /\ e.type = "TABLE_MAP"
                           /\ should_capture_table(e.db)
                           /\ should_capture_dml(e.db)
                           /\ in_transaction = 0
               closes == \/ is_query /\ e.query \in {"COMMIT", "ROLLBACK"}
                         \/ e.type = "XID"
           IN  in_transaction' = IF closes THEN 0
                                 ELSE IF opens THEN 1
                                 ELSE in_transaction ]_vars

\* C29 as stated: in both dialects, with save_position_event_count = N > 0,
\* after the decoder has handled any event the count of events since the
\* last checkpoint is less than N.
C29_Original ==
    [][ ( /\ dialect \in {"mysql", "pg"}
          /\ save_count > 0
          /\ feed # << >>
          /\ feed' = Tail(feed) )
        => events_since_save' < save_count ]_vars

\* C29 amended: with save_position_event_count = N > 0 the MySQL decoder
\* tests the count after every event and the PostgreSQL decoder tests it at
\* COMMIT only: the count of events since the last checkpoint is less than N
\* after the MySQL decoder has handled any event and after the PostgreSQL
\* decoder has handled any COMMIT message.
C29_Amended ==
    [][ ( /\ save_count > 0
          /\ feed # << >>
          /\ feed' = Tail(feed)
          /\ \/ dialect = "mysql"
             \/ dialect = "pg" /\ Head(feed).type = "COMMIT" )
        => events_since_save' < save_count ]_vars

\* the PostgreSQL decoder has saved at the COMMIT of the transaction with
\* two changes, where the count had reached N
C29_Witness ==
    /\ dialect = "pg"
    /\ save_count = 2
    /\ in_transaction = 0
    /\ events_since_save = 0
    /\ \E i \in 1..Len(writes) : writes[i].nrec >= 2

\* the position the decoder has reached: binlog file and offset, or LSN
DecoderPosition ==
    IF dialect = "mysql" THEN << current_binlog, current_position >>
    ELSE << 0, current_lsn >>

\* the step has written a checkpoint that holds the decoder's position
SavedHere ==
    /\ Len(writes') > Len(writes)
    /\ writes'[Len(writes')].pos = DecoderPosition'
    /\ checkpoint' = DecoderPosition'

\* C30 as stated: in both dialects, with save_position_event_count = 0, a
\* checkpoint holding the decoder's current position is written after
\* every row event and every commit event the decoder handles.
C30_Original ==
    [][ ( /\ dialect \in {"mysql", "pg"}
          /\ save_count = 0
          /\ feed # << >>
          /\ feed' = Tail(feed)
          /\ \/ Head(feed).type \in RowsTypes \cup {"INSERT"}
             \/ Head(feed).type \in {"XID", "COMMIT"}
             \/ /\ Head(feed).type = "QUERY"
                /\ Head(feed).query \in {"COMMIT", "ROLLBACK"} )
        => SavedHere ]_vars

\* C30 amended: with save_position_event_count = 0, a checkpoint holding
\* the decoder's current position is written after every row event and
\* every commit event the MySQL decoder handles and after every COMMIT
\* message the PostgreSQL decoder handles; a row message of the PostgreSQL
\* decoder writes none.
C30_Amended ==
    [][ ( /\ save_count = 0
          /\ feed # << >>
          /\ feed' = Tail(feed) )
        => LET e == Head(feed)
           IN  /\ ( /\ dialect = "mysql"
                    /\ \/ e.type \in RowsTypes \cup {"XID"}
                       \/ e.type = "QUERY"
                          /\ e.query \in {"COMMIT", "ROLLBACK"} )
                  => SavedHere
               /\ (dialect = "pg" /\ e.type = "COMMIT") => SavedHere
               /\ (dialect = "pg" /\ e.type = "INSERT")
                  => writes' = writes ]_vars

\* the PostgreSQL decoder, saving at every commit, has published a row and
\* stands behind the COMMIT whose end LSN the checkpoint file holds
C30_Witness ==
    /\ dialect = "pg"
    /\ save_count = 0
    /\ dpc = "streaming"
    /\ in_transaction = 0
    /\ emitted # << >>
    /\ writes # << >>
    /\ writes[Len(writes)].pos = << 0, current_lsn >>

\* C31: on orderly exit main stops the publishers, closes the replication
\* connection, persists the final checkpoint and releases the caches, in
\* this order: the connection is closed and the final checkpoint written
\* only after publisher_instance_stop has returned for every started sink,
\* the checkpoint after the close, the caches released last.
C31_ExitOrder ==
    LET At(step) == { i \in 1..Len(exit_log) : exit_log[i] = step }
        Before(a, b) == \A i \in At(a), j \in At(b) : i < j
    IN  /\ ( At("close_connection") \cup At("save_position") # {} )
              => \A s \in Sinks : WasStarted(s) => StopReturned(s)
        /\ Before("close_connection", "save_position")
        /\ Before("save_position", "release_caches")

\* the events of the session the decoder has handled so far
XidHandled == SubSeq(rel_feed, 1, Len(rel_feed) - Len(feed))

\* the schema named by the last TABLE_MAP event of a sequence, "" if none
RECURSIVE LastMapDb(_)
LastMapDb(evs) ==
    IF evs = << >> THEN ""
    ELSE IF evs[Len(evs)].type = "TABLE_MAP" THEN evs[Len(evs)].db
    ELSE LastMapDb(SubSeq(evs, 1, Len(evs) - 1))

\* C32: on a MySQL XID event received while a transaction is open, exactly
\* one COMMIT record carrying the open transaction's id is emitted if
\* capture_ddl is enabled for the schema of the most recent TABLE_MAP
\* event, and none otherwise; in every case the transaction is closed and
\* the transaction id is empty afterwards.
C32_XidCommit ==
    [][ ( /\ dialect = "mysql"
          /\ dpc = "streaming"
          /\ feed # << >>
          /\ feed' = Tail(feed)
          /\ Head(feed).type = "XID" )
        => LET new == SubSeq(emitted', Len(emitted) + 1, Len(emitted'))
           IN  /\ IF in_transaction = 1 /\ LastMapDb(XidHandled) \in DdlDbs
                  THEN /\ Len(new) = 1
                       /\ new[1].kind = "COMMIT"
                       /\ new[1].txn = current_txn_id
                       /\ current_txn_id # NoTxn
                  ELSE new = << >>
               /\ in_transaction' = 0
               /\ current_txn_id' = NoTxn ]_vars

\* an XID has closed a transaction whose last TABLE_MAP named the schema
\* with capture_ddl clear, after a row of it was published
C32_Witness ==
    /\ dialect = "mysql"
    /\ XidHandled # << >>
    /\ XidHandled[Len(XidHandled)].type = "XID"
    /\ LastMapDb(XidHandled) = DmlOnlyDb
    /\ emitted # << >>
    /\ emitted[Len(emitted)].kind = "WRITE_ROWS"
    /\ in_transaction = 0
    /\ current_txn_id = NoTxn

\* C33: for an UPDATE message of a captured relation that carries no
\* KEY/OLD tuple (its first tuple marker is 'N'), the decoder reads the
\* column count directly behind that marker and emits one UPDATE record
\* whose after mapping holds exactly the NEW tuple's captured columns and
\* which has no before mapping.
C33_UpdateWithoutOld ==
    (upd_rec # << >> /\ upd_old = << >>)
    => /\ upd_rec[1].new_ncols = Len(upd_new)
       /\ ~upd_rec[1].over
       /\ upd_rec[1].after = TupleValues(upd_new)
       /\ ~upd_rec[1].has_before

\* C34: for every received event buffer of size S >= 20 and every value
\* of the 32-bit length field of its header, values below 19 and above S
\* included, the payload length parse_event passes to the handlers is at
\* most S - 20.
C34_PayloadWithinBuffer ==
    (payload_len # << >> /\ ev_size >= HeaderLen + 1)
    => U32Leq(payload_len[1], U32(ev_size - (HeaderLen + 1)))

\* C40: when decoding of a row image of a rows event fails (a column of
\* unknown type, which advances no bytes, or a row running past the end of
\* the event), the record handed to the sinks, if any, contains only
\* completely decoded rows, never a partially rendered one.
C40_OnlyCompleteRows ==
    row_rec # << >>
    => \A i \in 1..Len(row_rec[1].rows) :
         /\ row_rec[1].rows[i].closed
         /\ Len(row_rec[1].rows[i].cols) = Cardinality(RowCols)

\* C39: if the MySQL streamer starts from a restored checkpoint (F, P) and
\* shuts down before it has handled any stream event, the final checkpoint
\* written on shutdown still holds (F, P).
C39_FinalCheckpointKeepsRestored ==
    ( /\ dialect = "mysql"
      /\ dpc = "stopped"
      /\ RestoreOk(restored)
      /\ start_req = restored
      /\ feed = ServerFeed(restored[1], restored[2]) )
    => checkpoint = restored

\* C35: for every loaded sink whose ring exists, in every state reachable
\* by interleaving enqueue, worker pop and stop: 0 <= q_count <= q_capacity,
\* q_tail = (q_head + q_count) mod q_capacity, exactly the q_count slots
\* starting at q_head hold a record, and every other slot is empty.
C35_RingInvariant ==
    \A s \in Range(instances) :
        queue[s] # << >> =>
          /\ 0 <= q_count[s] /\ q_count[s] <= q_capacity[s]
          /\ q_tail[s] = (q_head[s] + q_count[s]) % q_capacity[s]
          /\ \A i \in 0..(q_capacity[s] - 1) :
               (queue[s][i] # NULL)
               <=> ((i + q_capacity[s] - q_head[s]) % q_capacity[s]
                      < q_count[s])

\* a ring that has wrapped: the head is past slot 0 and the newest record
\* sits in a slot before it, while the stop flag is already set
C35_Witness ==
    \E s \in Range(instances) :
        /\ queue[s] # << >>
        /\ q_capacity[s] > 1
        /\ q_head[s] > 0
        /\ q_count[s] = q_capacity[s]
        /\ q_stop[s]

\* C36: when the manager has been destroyed, every record whose enqueue
\* to a loaded, active sink returned success has been passed to that sink's
\* publish callback exactly once, also for a sink whose start callback or
\* worker-thread creation failed.
C36_EnqueuedIsPublished ==
    pc = "done"
    => \A s \in Range(instances) : active[s] => pubLog[s] = enqLog[s]

\* C37: publisher_instance_stop on a started sink always terminates when
\* every publish call returns: once main has entered it, the worker sees
\* the stop flag, exits, the join returns and the stop callback is made.
C37_StopTerminates ==
    (pc = "stop_lock") ~> (pc = "stop_cb")

\* a stop has returned for a sink whose ring was empty when the flag was
\* set (its worker was idle, or between two passes of its loop) and which
\* had published before
C37_Witness ==
    \E s \in Sinks :
        /\ StopReturned(s)
        /\ q_at_stop[s] = 0
        /\ Len(pubLog[s]) >= 1
        /\ wpc[s] = "exited"

\* C38: on every sink the callbacks are invoked in the order init, start,
\* stop, cleanup; in particular the cleanup callback is invoked only on a
\* sink whose init callback was invoked and returned success, also on
\* every failure path of publisher_manager_load_plugin.
C38_CleanupAfterInit ==
    \A k \in 1..Len(load_log) :
        LET s == ConfigOrder[k]
            At(cb) == { i \in 1..Len(calls[s]) : calls[s][i] = cb }
            Before(a, b) == \A i \in At(a), j \in At(b) : i < j
        IN  /\ Before("init", "start") /\ Before("start", "stop")
            /\ Before("stop", "cleanup") /\ Before("init", "cleanup")
            /\ At("cleanup") # {}
                 => At("init") # {} /\ load_log[k] # "init_callback"

TypeOK ==
    /\ q_count \in [Sinks -> 0..MaxCap]
    /\ q_head \in [Sinks -> 0..(MaxCap - 1)]
    /\ q_tail \in [Sinks -> 0..(MaxCap - 1)]
    /\ q_mutex \in [Sinks -> {"free", "worker"}]
    /\ wpc \in [Sinks -> {"none", "run", "wait", "in_publish", "exited"}]
    /\ wevent \in [Sinks -> {NULL} \cup ObjIds]
    /\ heap \in [ObjIds -> {"unalloc", "live", "freed", "double_freed"}]
    /\ pc \in {"start", "stream", "dispatch", "enq_lock",
               "stop_loop", "stop_lock", "stop_join",
               "stop_cb", "destroy", "destroy_body", "done"}
====
